---- MODULE Spec2Model ----
(***************************************************************************)
(* A model of the RAG pipeline of ai-assistant: the fixed-size and the     *)
(* semantic chunker (rag/chunking.py), the embedder (rag/embed.py), the    *)
(* ingestion pipeline and its on-disk snapshot                             *)
(* (rag/ingest.py, rag/embed.py) and the retriever (rag/retrieve.py).      *)
(*                                                                         *)
(* Strings are sequences of one-character strings; Python's 0-based        *)
(* indices are kept, so text[i] in the source is text[i + 1] here.         *)
(* Scores are exact rationals <<numerator, denominator>>, denominator > 0. *)
(***************************************************************************)
EXTENDS Integers, Sequences, FiniteSets, TLC

VARIABLES
    \* FixedSizeChunker.chunk: its arguments, its locals and its position
    text, chunk_size, overlap, start, chunk_idx, chunks, pc,
    \* the three snapshot files at the output path
    f_index, f_chunks, f_meta,
    \* ingest_documents: the run's number, position, locals and return value
    run, ingest_pc, source, ing_chunks, embeddings, result, prev_snapshot,
    \* its embedding backend (EMBEDDING_MODEL_TYPE) and its calls of embed
    model_type, embed_calls,
    \* RAGRetriever / HybridRetriever: the instance's fields and its last call
    constructed, index, r_chunks, embedding_model, last_call,
    \* SemanticChunker.chunk: its arguments, its locals and its position
    sem_text, max_chunk_size, min_chunk_size, sections, section_i, paragraphs,
    para_i, current_chunk, current_start, sem_chunk_idx, sem_chunks, sem_pc,
    \* OpenAIEmbedding.embed: its argument, its locals, its position and what
    \* the caller gets
    e_texts, e_i, all_embeddings, e_ret, e_failed, e_pc,
    \* the calls in progress on one retriever instance, one per caller
    calls,
    \* the completions of the LLM so far, and the max_iterations of both runs
    llm_responses, max_iterations,
    \* Agent.run: its position, its locals, the messages of each LLM call, the
    \* tool calls handed to _execute_tool, and its return value
    a_pc, a_iteration, a_steps, a_messages, a_tool_calls_count, a_sent, a_executed,
    a_result,
    \* Agent.run_stream: the same, with the steps it has yielded
    s_pc, s_iteration, s_yielded, s_messages, s_sent, s_executed,
    \* time.time(), the middleware's buckets and its last response, and one
    \* TokenBucket with the return of its last consume
    clock, buckets, mw_response, bucket, consume_ret

chunker_vars == <<text, chunk_size, overlap, start, chunk_idx, chunks, pc>>
disk_vars == <<f_index, f_chunks, f_meta>>
ingest_vars == <<run, ingest_pc, source, ing_chunks, embeddings, result, prev_snapshot,
                 model_type, embed_calls>>
retriever_vars == <<constructed, index, r_chunks, embedding_model, last_call>>
ingest_vars_but_pc == <<run, source, ing_chunks, embeddings, result, prev_snapshot,
                        model_type, embed_calls>>
semantic_vars == <<sem_text, max_chunk_size, min_chunk_size, sections, section_i,
                   paragraphs, para_i, current_chunk, current_start, sem_chunk_idx,
                   sem_chunks, sem_pc>>
embed_vars == <<e_texts, e_i, all_embeddings, e_ret, e_failed, e_pc>>
call_vars == <<calls>>
run_vars == <<a_pc, a_iteration, a_steps, a_messages, a_tool_calls_count, a_sent, a_executed,
              a_result>>
stream_vars == <<s_pc, s_iteration, s_yielded, s_messages, s_sent, s_executed>>
agent_vars == <<llm_responses, max_iterations, run_vars, stream_vars>>
bucket_vars == <<clock, buckets, mw_response, bucket, consume_ret>>
other_vars == <<call_vars, agent_vars, bucket_vars>>
not_agent_vars == <<chunker_vars, disk_vars, ingest_vars, retriever_vars, semantic_vars,
                    embed_vars, call_vars, bucket_vars>>
not_bucket_vars == <<chunker_vars, disk_vars, ingest_vars, retriever_vars, semantic_vars,
                     embed_vars, call_vars, agent_vars>>
vars == <<chunker_vars, disk_vars, ingest_vars, retriever_vars, semantic_vars, embed_vars,
          other_vars>>

-----------------------------------------------------------------------------
(* Bounds of the model *)

\* longest text given to the chunker
MaxTextLen == 4
\* largest chunk_size given to the chunker
MaxChunkSize == 3
\* chunks the chunker may emit before the model stops following the run
MaxEmitted == 4
\* source files behind a snapshot that a retriever loads
MaxFiles == 2
\* ingestion runs into the output path
MaxRuns == 2
\* largest top_k of a retrieve call
MaxTopK == 3
\* longest list of texts given to embed
MaxTexts == 250
\* the largest max_iterations of a run of the agent
MaxIterations == 3
\* the last second of the clock
MaxClock == 3
\* the largest capacity of a bucket, and the largest n of consume(n)
MaxCapacity == 2
MaxConsume == 2

(* Program constants *)

\* chunking.py:60, the look-back of the sentence-boundary search
SentenceWindow == 50
\* embed.py:43
batch_size == 100
\* ingest.py:99,100: the defaults of ingest_documents
DefaultChunkSize == 512
DefaultChunkOverlap == 50

Chars == {"a", ".", " "}
Whitespace == {" ", "\n"}

-----------------------------------------------------------------------------
(* Generic helpers *)

Min(a, b) == IF a <= b THEN a ELSE b

SetMax(S) == CHOOSE x \in S : \A y \in S : y <= x

\* all sequences over S of length 0..n
SeqsUpTo(S, n) == UNION {[1..k -> S] : k \in 0..n}

-----------------------------------------------------------------------------
(* Python string primitives used by the chunker *)

\* CPython's adjustment of a slice index i for a string of length n
PyIndex(i, n) ==
    IF i < 0 THEN (IF i + n < 0 THEN 0 ELSE i + n)
    ELSE IF i > n THEN n ELSE i

\* s[a:b]
PySlice(s, a, b) ==
    LET lo == PyIndex(a, Len(s))
        hi == PyIndex(b, Len(s))
    IN  IF lo >= hi THEN <<>> ELSE SubSeq(s, lo + 1, hi)

\* s.rfind(sub, a, b): the highest index of sub within s[a:b], or -1
PyRfind(s, sub, a, b) ==
    LET lo == PyIndex(a, Len(s))
        hi == PyIndex(b, Len(s))
        found == {i \in lo..(hi - Len(sub)) : SubSeq(s, i + 1, i + Len(sub)) = sub}
    IN  IF found = {} THEN -1 ELSE SetMax(found)

RECURSIVE LStrip(_)
LStrip(s) == IF s # <<>> /\ Head(s) \in Whitespace THEN LStrip(Tail(s)) ELSE s

RECURSIVE RStrip(_)
RStrip(s) ==
    IF s # <<>> /\ s[Len(s)] \in Whitespace THEN RStrip(SubSeq(s, 1, Len(s) - 1)) ELSE s

\* s.strip()
Strip(s) == RStrip(LStrip(s))

-----------------------------------------------------------------------------
(* FixedSizeChunker.chunk: pc is "test" at the loop condition, "body" inside *)
(* the loop, "done" at the return statement                                *)

\* the window end of the iteration that starts at s: min(), then the
\* sentence-boundary cut
WindowEnd(s) ==
    LET end == Min(s + chunk_size, Len(text))
        sentence_end == PyRfind(text, <<".", " ">>, s + chunk_size - SentenceWindow, end)
    IN  IF end < Len(text) /\ sentence_end > s THEN sentence_end + 1 ELSE end

\* the start of the next window
NextStart(end) == end - overlap

ChunkerIdle ==
    /\ text = <<>> /\ chunk_size = 1 /\ overlap = 0
    /\ start = 0 /\ chunk_idx = 0 /\ chunks = <<>> /\ pc = "idle"

ChunkerInit ==
    /\ text \in SeqsUpTo(Chars, MaxTextLen)
    /\ chunk_size \in 1..MaxChunkSize
    /\ overlap \in 0..(chunk_size - 1)
    /\ start = 0
    /\ chunk_idx = 0
    /\ chunks = <<>>
    /\ pc = "test"

\* `while start < len(text)` holds: enter the body
ChunkEnter ==
    /\ pc = "test"
    /\ start < Len(text)
    /\ pc' = "body"
    /\ UNCHANGED <<text, chunk_size, overlap, start, chunk_idx, chunks>>
    /\ UNCHANGED <<disk_vars, ingest_vars, retriever_vars>>
    /\ UNCHANGED <<semantic_vars, embed_vars, other_vars>>

\* one pass through the body of the loop
ChunkStep ==
    /\ pc = "body"
    /\ LET end == WindowEnd(start)
           chunk_text == Strip(PySlice(text, start, end))
       IN  IF chunk_text # <<>> /\ Len(chunks) >= MaxEmitted
           THEN \* the model follows the run no further
                /\ pc' = "capped"
                /\ UNCHANGED <<start, chunk_idx, chunks>>
           ELSE /\ IF chunk_text # <<>>
                   THEN /\ chunks' = Append(chunks,
                               [id |-> <<"doc", chunk_idx>>,
                                content |-> chunk_text,
                                metadata |-> [chunk_index |-> chunk_idx],
                                start_index |-> start,
                                end_index |-> end])
                        /\ chunk_idx' = chunk_idx + 1
                   ELSE UNCHANGED <<chunks, chunk_idx>>
                /\ start' = NextStart(end)
                /\ pc' = "test"
    /\ UNCHANGED <<text, chunk_size, overlap>>
    /\ UNCHANGED <<disk_vars, ingest_vars, retriever_vars>>
    /\ UNCHANGED <<semantic_vars, embed_vars, other_vars>>

\* the loop condition fails: return chunks
ChunkReturn ==
    /\ pc = "test"
    /\ ~(start < Len(text))
    /\ pc' = "done"
    /\ UNCHANGED <<text, chunk_size, overlap, start, chunk_idx, chunks>>
    /\ UNCHANGED <<disk_vars, ingest_vars, retriever_vars>>
    /\ UNCHANGED <<semantic_vars, embed_vars, other_vars>>

-----------------------------------------------------------------------------
(* SemanticChunker.chunk: sem_pc is "sections" at the head of the loop over *)
(* the sections, "paragraphs" at the head of the loop over the paragraphs  *)
(* of an oversized section, "done" at the return statement                 *)

SemChars == {"a", "#", " ", "\n"}

\* the lookahead #{1,3}\s holds behind 1-based position i of s
HeaderFollows(s, i) ==
    \E k \in 1..3 :
        /\ i + k + 1 <= Len(s)
        /\ \A j \in 1..k : s[i + j] = "#"
        /\ s[i + k + 1] \in Whitespace

RECURSIVE SplitSections(_)
\* re.split(r'\n(?=#{1,3}\s)', s)
SplitSections(s) ==
    LET breaks == {i \in 1..Len(s) : s[i] = "\n" /\ HeaderFollows(s, i)}
    IN  IF breaks = {} THEN <<s>>
        ELSE LET i == CHOOSE b \in breaks : \A c \in breaks : b <= c
             IN  <<SubSeq(s, 1, i - 1)>> \o SplitSections(SubSeq(s, i + 1, Len(s)))

RECURSIVE SplitParagraphs(_)
\* s.split('\n\n')
SplitParagraphs(s) ==
    LET breaks == {i \in 1..(Len(s) - 1) : s[i] = "\n" /\ s[i + 1] = "\n"}
    IN  IF breaks = {} THEN <<s>>
        ELSE LET i == CHOOSE b \in breaks : \A c \in breaks : b <= c
             IN  <<SubSeq(s, 1, i - 1)>> \o SplitParagraphs(SubSeq(s, i + 2, Len(s)))

\* s.find(sub): the lowest index of sub in s, or -1
PyFind(s, sub) ==
    LET found == {i \in 0..(Len(s) - Len(sub)) : SubSeq(s, i + 1, i + Len(sub)) = sub}
    IN  IF found = {} THEN -1 ELSE CHOOSE i \in found : \A j \in found : i <= j

SemanticIdle ==
    /\ sem_text = <<>> /\ max_chunk_size = 1 /\ min_chunk_size = 0
    /\ sections = <<>> /\ section_i = 1 /\ paragraphs = <<>> /\ para_i = 1
    /\ current_chunk = <<>> /\ current_start = 0 /\ sem_chunk_idx = 0
    /\ sem_chunks = <<>> /\ sem_pc = "idle"

SemanticInit ==
    /\ sem_text \in SeqsUpTo(SemChars, MaxTextLen)
    /\ max_chunk_size \in 1..MaxChunkSize
    /\ min_chunk_size \in 0..(MaxChunkSize + 1)
    /\ sections = SplitSections(sem_text)
    /\ section_i = 1
    /\ paragraphs = <<>>
    /\ para_i = 1
    /\ current_chunk = <<>>
    /\ current_start = 0
    /\ sem_chunk_idx = 0
    /\ sem_chunks = <<>>
    /\ sem_pc = "sections"

\* a faulty chunk: the sequence number is left out of the id
BufferChunkUnnumbered(end) ==
    [id |-> <<"doc", 0>>,
     content |-> Strip(current_chunk),
     metadata |-> [chunk_index |-> sem_chunk_idx],
     start_index |-> current_start,
     end_index |-> end]

\* the buffer as a chunk, lines 110-116, 125-131 and 140-146
BufferChunk(end) ==
    [id |-> <<"doc", sem_chunk_idx>>,
     content |-> Strip(current_chunk),
     metadata |-> [chunk_index |-> sem_chunk_idx],
     start_index |-> current_start,
     end_index |-> end]

\* the buffer when `unit` overflows it, lines 118 and 133
OverflowBuffer(buffer, unit) == unit

\* lines 108-121 and 123-136: the unit is appended to the buffer behind `sep`,
\* or it overflows the buffer: the buffer is emitted when it is long enough,
\* and the unit starts the next buffer
Accumulate(unit, sep) ==
    IF Len(current_chunk) + Len(unit) > max_chunk_size
    THEN /\ IF Len(current_chunk) >= min_chunk_size
            THEN /\ sem_chunks' = Append(sem_chunks,
                                         BufferChunk(current_start + Len(current_chunk)))
                 /\ sem_chunk_idx' = sem_chunk_idx + 1
            ELSE UNCHANGED <<sem_chunks, sem_chunk_idx>>
         /\ current_chunk' = OverflowBuffer(current_chunk, unit)
         /\ current_start' = PyFind(sem_text, unit)
    ELSE /\ current_chunk' = current_chunk \o sep \o unit
         /\ UNCHANGED <<sem_chunks, sem_chunk_idx, current_start>>

\* one pass of the loop over the sections: an oversized section is split into
\* paragraphs, any other is accumulated
SemSection ==
    /\ sem_pc = "sections"
    /\ section_i <= Len(sections)
    /\ LET section == sections[section_i]
       IN  IF Len(section) > max_chunk_size
           THEN /\ paragraphs' = SplitParagraphs(section)
                /\ para_i' = 1
                /\ sem_pc' = "paragraphs"
                /\ UNCHANGED <<section_i, current_chunk, current_start,
                               sem_chunk_idx, sem_chunks>>
           ELSE /\ Accumulate(section, <<"\n">>)
                /\ section_i' = section_i + 1
                /\ UNCHANGED <<paragraphs, para_i, sem_pc>>
    /\ UNCHANGED <<sem_text, max_chunk_size, min_chunk_size, sections>>
    /\ UNCHANGED <<chunker_vars, disk_vars, ingest_vars, retriever_vars, embed_vars>>
    /\ UNCHANGED other_vars

\* one pass of the loop over the paragraphs of an oversized section
SemParagraph ==
    /\ sem_pc = "paragraphs"
    /\ Accumulate(paragraphs[para_i], <<"\n", "\n">>)
    /\ IF para_i < Len(paragraphs)
       THEN /\ para_i' = para_i + 1
            /\ UNCHANGED <<section_i, sem_pc>>
       ELSE /\ section_i' = section_i + 1
            /\ sem_pc' = "sections"
            /\ UNCHANGED para_i
    /\ UNCHANGED <<sem_text, max_chunk_size, min_chunk_size, sections, paragraphs>>
    /\ UNCHANGED <<chunker_vars, disk_vars, ingest_vars, retriever_vars, embed_vars>>
    /\ UNCHANGED other_vars

\* behind the loops: the last buffer, lines 139-146, and the return
SemReturn ==
    /\ sem_pc = "sections"
    /\ section_i > Len(sections)
    /\ IF Len(current_chunk) >= min_chunk_size
       THEN /\ sem_chunks' = Append(sem_chunks, BufferChunk(Len(sem_text)))
       ELSE UNCHANGED sem_chunks
    /\ sem_pc' = "done"
    /\ UNCHANGED <<sem_text, max_chunk_size, min_chunk_size, sections, section_i,
                   paragraphs, para_i, current_chunk, current_start, sem_chunk_idx>>
    /\ UNCHANGED <<chunker_vars, disk_vars, ingest_vars, retriever_vars, embed_vars>>
    /\ UNCHANGED other_vars

-----------------------------------------------------------------------------
(* CodeAwareChunker.chunk, on the variables of the semantic chunker: sem_pc *)
(* is "code_sections" at the head of the loop over the sections, "done" at *)
(* the return statement                                                    *)

\* the alternatives of the lookahead (?:def |class |function |const |export )
CodeKeywords ==
    {<<"d", "e", "f", " ">>,
     <<"c", "l", "a", "s", "s", " ">>,
     <<"f", "u", "n", "c", "t", "i", "o", "n", " ">>,
     <<"c", "o", "n", "s", "t", " ">>,
     <<"e", "x", "p", "o", "r", "t", " ">>}

RECURSIVE SplitCode(_)
\* re.split(pattern, s)
SplitCode(s) ==
    LET breaks == {i \in 1..Len(s) :
                     /\ s[i] = "\n"
                     /\ \E kw \in CodeKeywords :
                            /\ i + Len(kw) <= Len(s)
                            /\ SubSeq(s, i + 1, i + Len(kw)) = kw}
    IN  IF breaks = {} THEN <<s>>
        ELSE LET i == CHOOSE b \in breaks : \A c \in breaks : b <= c
             IN  <<SubSeq(s, 1, i - 1)>> \o SplitCode(SubSeq(s, i + 1, Len(s)))

\* the texts of the model are made of these pieces
CodePieces == {<<"a">>, <<" ">>, <<"\n">>, <<"d", "e", "f", " ">>}

RECURSIVE Flatten(_)
Flatten(ps) == IF ps = <<>> THEN <<>> ELSE Head(ps) \o Flatten(Tail(ps))

CodeInit ==
    /\ sem_text \in {Flatten(ps) : ps \in SeqsUpTo(CodePieces, MaxTextLen)}
    /\ max_chunk_size \in 1..(2 * MaxChunkSize)
    /\ min_chunk_size = 0
    /\ sections = SplitCode(sem_text)
    /\ section_i = 1
    /\ paragraphs = <<>>
    /\ para_i = 1
    /\ current_chunk = <<>>
    /\ current_start = 0
    /\ sem_chunk_idx = 0
    /\ sem_chunks = <<>>
    /\ sem_pc = "code_sections"

\* the buffer as a chunk, lines 176-182 and 189-195
CodeChunk ==
    [id |-> <<"doc", sem_chunk_idx>>,
     content |-> Strip(current_chunk),
     metadata |-> [chunk_index |-> sem_chunk_idx, type |-> "code"],
     start_index |-> 0,
     end_index |-> 0]

\* one pass of the loop over the sections, lines 173-186
CodeSection ==
    /\ sem_pc = "code_sections"
    /\ section_i <= Len(sections)
    /\ LET section == sections[section_i]
       IN  IF Len(current_chunk) + Len(section) > max_chunk_size
           THEN /\ IF Strip(current_chunk) # <<>>
                   THEN /\ sem_chunks' = Append(sem_chunks, CodeChunk)
                        /\ sem_chunk_idx' = sem_chunk_idx + 1
                   ELSE UNCHANGED <<sem_chunks, sem_chunk_idx>>
                /\ current_chunk' = section
           ELSE /\ current_chunk' = current_chunk \o section
                /\ UNCHANGED <<sem_chunks, sem_chunk_idx>>
    /\ section_i' = section_i + 1
    /\ UNCHANGED <<sem_text, max_chunk_size, min_chunk_size, sections, paragraphs,
                   para_i, current_start, sem_pc>>
    /\ UNCHANGED <<chunker_vars, disk_vars, ingest_vars, retriever_vars, embed_vars>>
    /\ UNCHANGED other_vars

\* behind the loop: the last buffer, lines 188-195, and the return
CodeReturn ==
    /\ sem_pc = "code_sections"
    /\ section_i > Len(sections)
    /\ IF Strip(current_chunk) # <<>>
       THEN sem_chunks' = Append(sem_chunks, CodeChunk)
       ELSE UNCHANGED sem_chunks
    /\ sem_pc' = "done"
    /\ UNCHANGED <<sem_text, max_chunk_size, min_chunk_size, sections, section_i,
                   paragraphs, para_i, current_chunk, current_start, sem_chunk_idx>>
    /\ UNCHANGED <<chunker_vars, disk_vars, ingest_vars, retriever_vars, embed_vars>>
    /\ UNCHANGED other_vars

-----------------------------------------------------------------------------
(* Texts of chunks and queries: sequences of whitespace-separated words *)

Lower(w) == IF w = "X" THEN "x" ELSE w

\* set(t.lower().split())
WordSet(t) == {Lower(t[i]) : i \in 1..Len(t)}

T_x == <<"x">>
T_y == <<"y">>
T_Xy == <<"X", "y">>

\* the chunk contents of the model
Contents == {T_x, T_y, T_Xy}

\* the number of i with t[i] = w
Count(t, w) == Cardinality({i \in 1..Len(t) : t[i] = w})

-----------------------------------------------------------------------------
(* The embedder *)

\* the provider's embedding of one text: a fixed function of the text, here
\* into two dimensions (its length in words, twice its number of "y")
EmbedOne(t) == <<Len(t), 2 * Count(t, "y")>>

\* one provider call: one embedding per item of the batch, in order
EmbedBatch(batch) == [i \in 1..Len(batch) |-> EmbedOne(batch[i])]

RECURSIVE EmbedFrom(_, _)
EmbedFrom(texts, i) ==
    IF i >= Len(texts) THEN <<>>
    ELSE EmbedBatch(SubSeq(texts, i + 1, Min(i + batch_size, Len(texts))))
            \o EmbedFrom(texts, i + batch_size)

\* a faulty embed: the vectors come back in reverse order
EmbedReversed(texts) ==
    LET e == EmbedFrom(texts, 0) IN [i \in 1..Len(e) |-> e[Len(e) + 1 - i]]

\* OpenAIEmbedding.embed: batches of batch_size, results concatenated
Embed(texts) == EmbedFrom(texts, 0)

(* OpenAIEmbedding.embed, batch by batch: e_pc is "loop" at the head of the *)
(* loop over the batches, "returned" behind the return statement, "raised" *)
(* when an exception has left the call                                     *)

\* the i-th text of an input: the three contents in turn, from `shift` on
TextAt(shift, i) ==
    LET k == (i + shift) % 3 IN IF k = 0 THEN T_x ELSE IF k = 1 THEN T_y ELSE T_Xy

\* the inputs of the calls of the model: every length up to MaxTexts
EmbedInputs == {[i \in 1..n |-> TextAt(shift, i)] : n \in 0..MaxTexts, shift \in 0..2}

\* a faulty batch: one item short
BatchShort(texts, i) == SubSeq(texts, i + 1, Min(i + batch_size - 1, Len(texts)))

\* texts[i:i + batch_size]
Batch(texts, i) == SubSeq(texts, i + 1, Min(i + batch_size, Len(texts)))

\* what the caller of embed gets
NoReturn == [kind |-> "none", value |-> <<>>]

\* a faulty embed: the exception of a provider call is caught and the
\* embeddings of the batches before it are returned
OnProviderErrorMasked(acc) == [pc |-> "returned", ret |-> [kind |-> "value", value |-> acc]]

\* an exception of client.embeddings.create: nothing catches it in embed
OnProviderError(acc) == [pc |-> "raised", ret |-> [kind |-> "exception", value |-> <<>>]]

EmbedIdle ==
    /\ e_texts = <<>> /\ e_i = 0 /\ all_embeddings = <<>> /\ e_ret = NoReturn
    /\ e_failed = FALSE /\ e_pc = "idle"

EmbedInit ==
    /\ e_texts \in EmbedInputs
    /\ e_i = 0
    /\ all_embeddings = <<>>
    /\ e_ret = NoReturn
    /\ e_failed = FALSE
    /\ e_pc = "loop"

\* one pass of the loop: the provider call succeeds
EmbedBatchOk ==
    /\ e_pc = "loop"
    /\ e_i < Len(e_texts)
    /\ all_embeddings' = all_embeddings \o EmbedBatch(Batch(e_texts, e_i))
    /\ e_i' = e_i + batch_size
    /\ UNCHANGED <<e_texts, e_ret, e_failed, e_pc>>
    /\ UNCHANGED <<chunker_vars, disk_vars, ingest_vars, retriever_vars, semantic_vars>>
    /\ UNCHANGED other_vars

\* one pass of the loop: the provider call raises
EmbedBatchFails ==
    /\ e_pc = "loop"
    /\ e_i < Len(e_texts)
    /\ e_failed' = TRUE
    /\ e_pc' = OnProviderError(all_embeddings).pc
    /\ e_ret' = OnProviderError(all_embeddings).ret
    /\ UNCHANGED <<e_texts, e_i, all_embeddings>>
    /\ UNCHANGED <<chunker_vars, disk_vars, ingest_vars, retriever_vars, semantic_vars>>
    /\ UNCHANGED other_vars

\* the loop is over: return np.array(all_embeddings)
EmbedReturn ==
    /\ e_pc = "loop"
    /\ ~(e_i < Len(e_texts))
    /\ e_ret' = [kind |-> "value", value |-> all_embeddings]
    /\ e_pc' = "returned"
    /\ UNCHANGED <<e_texts, e_i, all_embeddings, e_failed>>
    /\ UNCHANGED <<chunker_vars, disk_vars, ingest_vars, retriever_vars, semantic_vars>>
    /\ UNCHANGED other_vars

-----------------------------------------------------------------------------
(* The snapshot files and ingest_documents *)

AbsentIndex == [state |-> "absent", run |-> 0, data |-> <<>>]
AbsentChunks == [state |-> "absent", run |-> 0, data |-> <<>>]
NoManifest == [total_chunks |-> 0, dimensions |-> 0, chunk_size |-> 0, chunk_overlap |-> 0]
AbsentMeta == [state |-> "absent", run |-> 0, data |-> NoManifest]

\* a source file: binary (not UTF-8), or text that the chunker cuts into
\* `pieces` (none when the file is blank)
BinaryFile == [kind |-> "binary", pieces |-> <<>>]
TextFile(p) == [kind |-> "text", pieces |-> p]
SourceFiles == {BinaryFile, TextFile(<<>>), TextFile(<<T_x>>), TextFile(<<T_y>>),
                TextFile(<<T_x, T_Xy>>), TextFile(<<T_y, T_Xy>>)}

\* the eligible files under a source path, in enumeration order
Sources == UNION {[1..n -> SourceFiles] : n \in 1..MaxFiles}

\* the sources of the ingestion runs of the model: no file, no usable file,
\* one file, files of which some are skipped, two and three chunks from two
\* files
Corpora ==
    {<<>>,
     <<BinaryFile>>,
     <<BinaryFile, TextFile(<<>>), TextFile(<<T_x, T_Xy>>)>>,
     <<TextFile(<<>>), BinaryFile>>,
     <<TextFile(<<T_x>>)>>,
     <<TextFile(<<T_y>>), TextFile(<<>>)>>,
     <<TextFile(<<T_y>>), TextFile(<<T_x>>)>>,
     <<BinaryFile, TextFile(<<T_x, T_Xy>>)>>,
     <<TextFile(<<T_y>>), TextFile(<<T_x, T_Xy>>)>>}

\* ingest_file: the chunks of the file at `path`
IngestFile(path, file) ==
    IF file.kind = "binary" THEN <<>>
    ELSE [i \in 1..Len(file.pieces) |->
            [id |-> <<path, i - 1>>,
             content |-> file.pieces[i],
             metadata |-> [source |-> path, chunk_index |-> i - 1]]]

RECURSIVE IngestDirectory(_, _)
\* ingest_directory: the chunks of files path..Len(src), accumulated in order
IngestDirectory(src, path) ==
    IF path > Len(src) THEN <<>>
    ELSE IngestFile(path, src[path]) \o IngestDirectory(src, path + 1)

\* a faulty chunk_data: the metadata of the first chunk is written for every
\* chunk
ChunkDataOneMetadata(cs) ==
    [i \in 1..Len(cs) |->
        [id |-> cs[i].id, content |-> cs[i].content, metadata |-> cs[1].metadata]]

\* chunk_data: id, content and metadata of every chunk, in order
ChunkData(cs) ==
    [i \in 1..Len(cs) |->
        [id |-> cs[i].id, content |-> cs[i].content, metadata |-> cs[i].metadata]]

\* the manifest written to metadata.json
Manifest(cs, emb) ==
    [total_chunks |-> Len(cs), dimensions |-> Len(emb[1]),
     chunk_size |-> DefaultChunkSize, chunk_overlap |-> DefaultChunkOverlap]

NoResult == [documents |-> 0, chunks |-> 0, errors |-> <<>>, raised |-> FALSE]

\* a faulty empty-corpus exit: the run raises
EmptyCorpusRaises == [NoResult EXCEPT !.raised = TRUE]

\* the value returned when the source yields no chunks, lines 128-133
EmptyCorpusResult ==
    [documents |-> 0, chunks |-> 0, errors |-> <<"No documents found">>, raised |-> FALSE]

\* a faulty count: one per chunk
DocumentsAsChunks(cs) == Len(cs)

\* len(set(c.metadata.get("source") for c in chunks)), line 189
Documents(cs) == Cardinality({cs[i].metadata.source : i \in 1..Len(cs)})

\* the values of EMBEDDING_MODEL_TYPE of the runs of the model, and those that
\* get_embedding_model knows
ModelTypes == {"openai", "sentence-transformers", "word2vec"}
KnownModelTypes == {"openai", "sentence-transformers"}

\* a faulty choice of texts: those of the first contributing file only
EmbedTextsFirstFile(cs) ==
    LET first == {i \in 1..Len(cs) : cs[i].metadata.source = cs[1].metadata.source}
    IN  [i \in 1..Cardinality(first) |-> cs[i].content]

\* texts = [c.content for c in chunks], line 143
EmbedTexts(cs) == [i \in 1..Len(cs) |-> cs[i].content]

IngestIdle ==
    /\ run = 0 /\ ingest_pc = "idle" /\ source = <<>> /\ ing_chunks = <<>>
    /\ embeddings = <<>> /\ result = NoResult
    /\ prev_snapshot = <<AbsentIndex, AbsentChunks, AbsentMeta>>
    /\ model_type = "openai" /\ embed_calls = 0

DiskEmpty == f_index = AbsentIndex /\ f_chunks = AbsentChunks /\ f_meta = AbsentMeta

\* ingest_documents up to the empty-corpus check: load and chunk the source
IngestStart ==
    /\ ingest_pc \in {"idle", "returned", "failed"}
    /\ run < MaxRuns
    /\ \E src \in Corpora :
        LET cs == IngestDirectory(src, 1) IN
        /\ source' = src
        /\ run' = run + 1
        /\ prev_snapshot' = <<f_index, f_chunks, f_meta>>
        /\ embeddings' = <<>>
        /\ embed_calls' = 0
        /\ model_type' \in ModelTypes
        /\ IF cs = <<>>
           THEN /\ result' = EmptyCorpusResult
                /\ ing_chunks' = <<>>
                /\ ingest_pc' = "returned"
           ELSE /\ result' = NoResult
                /\ ing_chunks' = cs
                /\ ingest_pc' = "chunked"
    /\ UNCHANGED <<disk_vars, chunker_vars, retriever_vars>>
    /\ UNCHANGED <<semantic_vars, embed_vars, other_vars>>

\* embedding_model.embed(texts) returns
IngestEmbed ==
    /\ ingest_pc = "chunked"
    /\ model_type \in KnownModelTypes
    /\ embeddings' = Embed(EmbedTexts(ing_chunks))
    /\ embed_calls' = embed_calls + 1
    /\ ingest_pc' = "embedded"
    /\ UNCHANGED <<run, source, ing_chunks, result, prev_snapshot, model_type>>
    /\ UNCHANGED <<disk_vars, chunker_vars, retriever_vars>>
    /\ UNCHANGED <<semantic_vars, embed_vars, other_vars>>

\* faiss.write_index(index, output_path / "index.faiss")
IngestWriteIndex ==
    /\ ingest_pc = "embedded"
    /\ f_index' = [state |-> "complete", run |-> run, data |-> embeddings]
    /\ ingest_pc' = "index_written"
    /\ UNCHANGED <<f_chunks, f_meta, ingest_vars_but_pc>>
    /\ UNCHANGED <<chunker_vars, retriever_vars>>
    /\ UNCHANGED <<semantic_vars, embed_vars, other_vars>>

\* json.dump(chunk_data, open(output_path / "chunks.json", "w"))
IngestWriteChunks ==
    /\ ingest_pc = "index_written"
    /\ f_chunks' = [state |-> "complete", run |-> run, data |-> ChunkData(ing_chunks)]
    /\ ingest_pc' = "chunks_written"
    /\ UNCHANGED <<f_index, f_meta, ingest_vars_but_pc>>
    /\ UNCHANGED <<chunker_vars, retriever_vars>>
    /\ UNCHANGED <<semantic_vars, embed_vars, other_vars>>

\* json.dump(metadata, open(output_path / "metadata.json", "w"))
IngestWriteMeta ==
    /\ ingest_pc = "chunks_written"
    /\ f_meta' = [state |-> "complete", run |-> run,
                  data |-> Manifest(ing_chunks, embeddings)]
    /\ ingest_pc' = "meta_written"
    /\ UNCHANGED <<f_index, f_chunks, ingest_vars_but_pc>>
    /\ UNCHANGED <<chunker_vars, retriever_vars>>
    /\ UNCHANGED <<semantic_vars, embed_vars, other_vars>>

\* the return statement of a run that wrote its snapshot
IngestReturn ==
    /\ ingest_pc = "meta_written"
    /\ result' = [documents |-> Documents(ing_chunks),
                  chunks |-> Len(ing_chunks), errors |-> <<>>, raised |-> FALSE]
    /\ ingest_pc' = "returned"
    /\ UNCHANGED <<run, source, ing_chunks, embeddings, prev_snapshot>>
    /\ UNCHANGED <<model_type, embed_calls>>
    /\ UNCHANGED <<disk_vars, chunker_vars, retriever_vars>>
    /\ UNCHANGED <<semantic_vars, embed_vars, other_vars>>

\* get_embedding_model raises ValueError for a backend it does not know,
\* line 138
IngestUnknownModel ==
    /\ ingest_pc = "chunked"
    /\ model_type \notin KnownModelTypes
    /\ ingest_pc' = "failed"
    /\ result' = [NoResult EXCEPT !.raised = TRUE]
    /\ UNCHANGED <<run, source, ing_chunks, embeddings, prev_snapshot>>
    /\ UNCHANGED <<model_type, embed_calls>>
    /\ UNCHANGED <<disk_vars, chunker_vars, retriever_vars>>
    /\ UNCHANGED <<semantic_vars, embed_vars, other_vars>>

\* embedding_model.embed(texts) raises: a provider call of a batch failed
IngestEmbedFails ==
    /\ ingest_pc = "chunked"
    /\ model_type \in KnownModelTypes
    /\ embed_calls' = embed_calls + 1
    /\ ingest_pc' = "failed"
    /\ result' = [NoResult EXCEPT !.raised = TRUE]
    /\ UNCHANGED <<run, source, ing_chunks, embeddings, prev_snapshot, model_type>>
    /\ UNCHANGED <<disk_vars, chunker_vars, retriever_vars>>
    /\ UNCHANGED <<semantic_vars, embed_vars, other_vars>>

\* the run ends between two statements: the provider call raises, a write
\* cannot open its file, or the process is stopped
IngestFails ==
    /\ ingest_pc \in {"chunked", "embedded", "index_written", "chunks_written"}
    /\ ingest_pc' = "failed"
    /\ result' = [NoResult EXCEPT !.raised = TRUE]
    /\ UNCHANGED <<run, source, ing_chunks, embeddings, prev_snapshot>>
    /\ UNCHANGED <<model_type, embed_calls>>
    /\ UNCHANGED <<disk_vars, chunker_vars, retriever_vars>>
    /\ UNCHANGED <<semantic_vars, embed_vars, other_vars>>

\* the run ends inside a write: the file was opened for writing (truncated)
\* and holds only part of the new content
IngestFailsWriting ==
    /\ \/ /\ ingest_pc = "embedded"
          /\ f_index' = [state |-> "torn", run |-> run, data |-> <<>>]
          /\ UNCHANGED <<f_chunks, f_meta>>
       \/ /\ ingest_pc = "index_written"
          /\ f_chunks' = [state |-> "torn", run |-> run, data |-> <<>>]
          /\ UNCHANGED <<f_index, f_meta>>
       \/ /\ ingest_pc = "chunks_written"
          /\ f_meta' = [state |-> "torn", run |-> run, data |-> NoManifest]
          /\ UNCHANGED <<f_index, f_chunks>>
    /\ ingest_pc' = "failed"
    /\ result' = [NoResult EXCEPT !.raised = TRUE]
    /\ UNCHANGED <<run, source, ing_chunks, embeddings, prev_snapshot>>
    /\ UNCHANGED <<model_type, embed_calls>>
    /\ UNCHANGED <<chunker_vars, retriever_vars>>
    /\ UNCHANGED <<semantic_vars, embed_vars, other_vars>>

-----------------------------------------------------------------------------
(* Exact rationals <<n, d>>, d > 0 *)

RGe(a, b) == a[1] * b[2] >= b[1] * a[2]
RGt(a, b) == a[1] * b[2] > b[1] * a[2]
RAdd(a, b) == <<a[1] * b[2] + b[1] * a[2], a[2] * b[2]>>
RMul(a, b) == <<a[1] * b[1], a[2] * b[2]>>
ROne == <<1, 1>>
RSub(a, b) == <<a[1] * b[2] - b[1] * a[2], a[2] * b[2]>>

\* a faulty boost: 0.1 per overlapping word
RerankBoostDouble == <<1, 10>>

\* retrieve.py:151, the boost per overlapping word, 0.05
RerankBoost == <<1, 20>>

\* the thresholds, queries and weights of the calls made in the model
Thresholds == {<<0, 1>>, <<1, 6>>, <<1, 2>>, <<1, 1>>}
Queries == {<<>>, T_x, T_y, <<"x", "y">>}
Weights == {<<0, 1>>, <<7, 10>>, <<1, 1>>}

-----------------------------------------------------------------------------
(* list.sort(key=score, reverse=True): a stable sort, descending *)

RECURSIVE InsertDesc(_, _)
\* r inserted after every element of the sorted list whose score is >= its own
InsertDesc(sorted, r) ==
    IF sorted = <<>> THEN <<r>>
    ELSE IF RGe(Head(sorted).score, r.score)
         THEN <<Head(sorted)>> \o InsertDesc(Tail(sorted), r)
         ELSE <<r>> \o sorted

RECURSIVE SortDescFrom(_, _, _)
SortDescFrom(rs, i, acc) ==
    IF i > Len(rs) THEN acc ELSE SortDescFrom(rs, i + 1, InsertDesc(acc, rs[i]))

\* a faulty sort: the list is left as it is
SortNone(rs) == rs

SortDesc(rs) == SortDescFrom(rs, 1, <<>>)

\* rs[:k]
Take(rs, k) == SubSeq(rs, 1, Min(k, Len(rs)))

-----------------------------------------------------------------------------
(* The flat L2 index *)

\* squared L2 distance, as IndexFlatL2 reports it
L2(u, v) == (u[1] - v[1]) * (u[1] - v[1]) + (u[2] - v[2]) * (u[2] - v[2])

RECURSIVE Nearest(_, _, _, _)
\* the k nearest of the vectors at the 0-based positions `left`, nearest first
\* (equal distances: lower position first), padded with idx -1 beyond them
Nearest(vectors, qv, k, left) ==
    IF k = 0 THEN <<>>
    ELSE IF left = {} THEN <<[dist |-> -1, idx |-> -1]>> \o Nearest(vectors, qv, k - 1, left)
    ELSE LET best == CHOOSE i \in left : \A j \in left :
                        \/ L2(qv, vectors[i + 1]) < L2(qv, vectors[j + 1])
                        \/ L2(qv, vectors[i + 1]) = L2(qv, vectors[j + 1]) /\ i <= j
         IN  <<[dist |-> L2(qv, vectors[best + 1]), idx |-> best]>>
                \o Nearest(vectors, qv, k - 1, left \ {best})

\* index.search(query_vector, k)
IndexSearch(vectors, qv, k) == Nearest(vectors, qv, k, 0..(Len(vectors) - 1))

\* 1.0 / (1.0 + dist)
Similarity(dist) == <<1, 1 + dist>>

-----------------------------------------------------------------------------
(* RAGRetriever *)

NoIndex == [loaded |-> FALSE, vectors |-> <<>>]

\* what get_stats reports of the instance (no call of it made yet)
NoStats == [total_chunks |-> 0, dimensions |-> 0]

NoCall == [op |-> "none", query |-> <<>>, top_k |-> 0, threshold |-> <<0, 1>>,
           rerank |-> FALSE, weight |-> <<0, 1>>,
           raised |-> "none", embedded |-> FALSE, searched |-> FALSE,
           reranked |-> FALSE, results |-> <<>>, stats |-> NoStats]

\* a faulty threshold test: the comparison is the wrong way round
PassesBelow(score, threshold) == RGe(threshold, score)

\* the threshold test of retrieve, line 119
Passes(score, threshold) == RGe(score, threshold)

\* a faulty range check: the last chunk is taken to be out of range
InRangeButLast(idx, n) == ~(idx < 0 \/ idx >= n - 1)

\* the range check of retrieve, line 112
InRange(idx, n) == ~(idx < 0 \/ idx >= n)

RECURSIVE Convert(_, _, _, _)
\* lines 110-125: the search hits from position i on, as results
Convert(hits, chs, threshold, i) ==
    IF i > Len(hits) THEN <<>>
    ELSE LET idx == hits[i].idx
             rest == Convert(hits, chs, threshold, i + 1)
         IN  IF ~InRange(idx, Len(chs)) THEN rest
             ELSE IF Passes(Similarity(hits[i].dist), threshold)
                  THEN <<[id |-> chs[idx + 1].id,
                          content |-> chs[idx + 1].content,
                          score |-> Similarity(hits[i].dist),
                          metadata |-> chs[idx + 1].metadata]>> \o rest
                  ELSE rest

\* _rerank: boost by word overlap, sort, truncate
Rerank(query, results, top_k) ==
    LET boosted == [i \in 1..Len(results) |->
                      [results[i] EXCEPT !.score =
                          RAdd(@, RMul(<<Cardinality(WordSet(query) \cap WordSet(results[i].content)), 1>>,
                                       RerankBoost))]]
    IN  Take(SortDesc(boosted), top_k)

\* search_k of retrieve, line 102
SearchK(top_k, rerank) == IF rerank THEN top_k * 3 ELSE top_k

\* the final truncation of retrieve, line 131
Truncate(results, top_k) == Take(results, top_k)

\* RAGRetriever.retrieve on an instance with fields idx, chs
RetrieveOp(idx, chs, query, top_k, threshold, rerank) ==
    IF ~idx.loaded
    THEN [raised |-> "Index not loaded", embedded |-> FALSE, searched |-> FALSE,
          reranked |-> FALSE, results |-> <<>>]
    ELSE LET query_embedding == Embed(<<query>>)[1]
             hits == IndexSearch(idx.vectors, query_embedding, SearchK(top_k, rerank))
             results == Convert(hits, chs, threshold, 1)
             do_rerank == rerank /\ Len(results) > top_k
         IN  [raised |-> "none", embedded |-> TRUE, searched |-> TRUE,
              reranked |-> do_rerank,
              results |-> Truncate(IF do_rerank THEN Rerank(query, results, top_k)
                                   ELSE results, top_k)]

RECURSIVE KeywordScoresAll(_, _, _)
\* a faulty scoring: every chunk is scored, matching or not
KeywordScoresAll(chs, query_words, i) ==
    IF i >= Len(chs) THEN <<>>
    ELSE <<[idx |-> i,
            score |-> <<Cardinality(query_words \cap WordSet(chs[i + 1].content)),
                        Cardinality(query_words)>>]>>
            \o KeywordScoresAll(chs, query_words, i + 1)

RECURSIVE KeywordScores(_, _, _)
\* lines 223-232: (position, score) of every chunk from 0-based position i on
\* that shares a word with the query
KeywordScores(chs, query_words, i) ==
    IF i >= Len(chs) THEN <<>>
    ELSE LET matches == Cardinality(query_words \cap WordSet(chs[i + 1].content))
             rest == KeywordScores(chs, query_words, i + 1)
         IN  IF matches > 0
             THEN <<[idx |-> i, score |-> <<matches, Cardinality(query_words)>>]>> \o rest
             ELSE rest

\* HybridRetriever._keyword_search
KeywordSearch(chs, query, top_k) ==
    LET scores == Take(SortDesc(KeywordScores(chs, WordSet(query), 0)), top_k)
    IN  [i \in 1..Len(scores) |->
            [id |-> chs[scores[i].idx + 1].id,
             content |-> chs[scores[i].idx + 1].content,
             score |-> scores[i].score,
             metadata |-> chs[scores[i].idx + 1].metadata]]

\* result_map[r.id] = r: replaced in place when the key exists, else appended
MapPut(map, r) ==
    IF \E i \in 1..Len(map) : map[i].id = r.id
    THEN [i \in 1..Len(map) |-> IF map[i].id = r.id THEN r ELSE map[i]]
    ELSE Append(map, r)

RECURSIVE FuseSemantic(_, _, _, _)
\* lines 195-201
FuseSemantic(map, rs, w, i) ==
    IF i > Len(rs) THEN map
    ELSE FuseSemantic(MapPut(map, [rs[i] EXCEPT !.score = RMul(@, w)]), rs, w, i + 1)

RECURSIVE FuseKeywordOverwrite(_, _, _, _)
\* a faulty fusion: the keyword part replaces the entry of the semantic part
FuseKeywordOverwrite(map, rs, w, i) ==
    IF i > Len(rs) THEN map
    ELSE FuseKeywordOverwrite(
            MapPut(map, [rs[i] EXCEPT !.score = RMul(@, RSub(ROne, w))]), rs, w, i + 1)

RECURSIVE FuseKeyword(_, _, _, _)
\* lines 203-212
FuseKeyword(map, rs, w, i) ==
    IF i > Len(rs) THEN map
    ELSE LET r == rs[i]
             part == RMul(r.score, RSub(ROne, w))
             next == IF \E j \in 1..Len(map) : map[j].id = r.id
                     THEN [j \in 1..Len(map) |->
                             IF map[j].id = r.id
                             THEN [map[j] EXCEPT !.score = RAdd(@, part)]
                             ELSE map[j]]
                     ELSE Append(map, [r EXCEPT !.score = part])
         IN  FuseKeyword(next, rs, w, i + 1)

\* HybridRetriever.retrieve on an instance with fields idx, chs
HybridOp(idx, chs, query, top_k, threshold, semantic_weight) ==
    LET semantic == RetrieveOp(idx, chs, query, top_k * 2, threshold, FALSE)
    IN  IF semantic.raised # "none" THEN semantic
        ELSE LET keyword_results == KeywordSearch(chs, query, top_k * 2)
                 result_map == FuseKeyword(
                                  FuseSemantic(<<>>, semantic.results, semantic_weight, 1),
                                  keyword_results, semantic_weight, 1)
             IN  [semantic EXCEPT !.results = Take(SortDesc(result_map), top_k)]

\* a faulty _load_index: chunks.json is read before the index file is looked for
LoadMissingKeepsChunks == [idx |-> NoIndex, chs |-> f_chunks.data, model |-> "none"]

\* _load_index with no index file: the early return of line 53
LoadMissing == [idx |-> NoIndex, chs |-> <<>>, model |-> "none"]

\* _load_index with an index file: read it, then chunks.json when it exists
LoadPresent ==
    [idx |-> [loaded |-> TRUE, vectors |-> f_index.data],
     chs |-> IF f_chunks.state = "complete" THEN f_chunks.data ELSE <<>>,
     model |-> "openai"]

RetrieverIdle ==
    /\ constructed = "no" /\ index = NoIndex /\ r_chunks = <<>>
    /\ embedding_model = "none" /\ last_call = NoCall

\* RAGRetriever(vector_path) or HybridRetriever(vector_path)
Construct ==
    /\ constructed = "no"
    /\ \E class \in {"RAGRetriever", "HybridRetriever"} :
        IF f_index.state = "torn" \/ (f_index.state = "complete" /\ f_chunks.state = "torn")
        THEN \* faiss.read_index or json.load raises: no instance
             /\ last_call' = [NoCall EXCEPT !.op = "construct", !.raised = "load error"]
             /\ UNCHANGED <<constructed, index, r_chunks, embedding_model>>
        ELSE LET loaded == IF f_index.state = "absent" THEN LoadMissing ELSE LoadPresent
             IN  /\ constructed' = class
                 /\ index' = loaded.idx
                 /\ r_chunks' = loaded.chs
                 /\ embedding_model' = loaded.model
                 /\ last_call' = NoCall
    /\ UNCHANGED <<disk_vars, ingest_vars, chunker_vars>>
    /\ UNCHANGED <<semantic_vars, embed_vars, other_vars>>

CallRecord(op, query, top_k, threshold, rerank, weight, out) ==
    [op |-> op, query |-> query, top_k |-> top_k, threshold |-> threshold,
     rerank |-> rerank, weight |-> weight,
     raised |-> out.raised, embedded |-> out.embedded, searched |-> out.searched,
     reranked |-> out.reranked, results |-> out.results, stats |-> NoStats]

\* a call of RAGRetriever.retrieve
Retrieve ==
    /\ constructed = "RAGRetriever"
    /\ last_call.op = "none"
    /\ \E query \in Queries, top_k \in 1..MaxTopK, threshold \in Thresholds,
          rerank \in BOOLEAN :
        last_call' = CallRecord("retrieve", query, top_k, threshold, rerank, <<0, 1>>,
                        RetrieveOp(index, r_chunks, query, top_k, threshold, rerank))
    /\ UNCHANGED <<constructed, index, r_chunks, embedding_model>>
    /\ UNCHANGED <<disk_vars, ingest_vars, chunker_vars>>
    /\ UNCHANGED <<semantic_vars, embed_vars, other_vars>>

\* a call of HybridRetriever.retrieve
HybridRetrieve ==
    /\ constructed = "HybridRetriever"
    /\ last_call.op = "none"
    /\ \E query \in Queries, top_k \in 1..MaxTopK, threshold \in Thresholds,
          semantic_weight \in Weights :
        last_call' = CallRecord("hybrid", query, top_k, threshold, TRUE, semantic_weight,
                        HybridOp(index, r_chunks, query, top_k, threshold, semantic_weight))
    /\ UNCHANGED <<constructed, index, r_chunks, embedding_model>>
    /\ UNCHANGED <<disk_vars, ingest_vars, chunker_vars>>
    /\ UNCHANGED <<semantic_vars, embed_vars, other_vars>>

\* a call of HybridRetriever._keyword_search alone
KeywordSearchCall ==
    /\ constructed = "HybridRetriever"
    /\ last_call.op = "none"
    /\ \E query \in Queries, top_k \in 1..MaxTopK :
        last_call' = CallRecord("keyword", query, top_k, <<0, 1>>, FALSE, <<0, 1>>,
                        [raised |-> "none", embedded |-> FALSE, searched |-> FALSE,
                         reranked |-> FALSE,
                         results |-> KeywordSearch(r_chunks, query, top_k)])
    /\ UNCHANGED <<constructed, index, r_chunks, embedding_model>>
    /\ UNCHANGED <<disk_vars, ingest_vars, chunker_vars>>
    /\ UNCHANGED <<semantic_vars, embed_vars, other_vars>>

\* index.d: the dimension of the vectors of the index
IndexDim(vectors) == IF vectors = <<>> THEN 0 ELSE Len(vectors[1])

\* get_stats on an instance with fields idx, chs
GetStats(idx, chs) ==
    [total_chunks |-> Len(chs),
     dimensions |-> IF idx.loaded THEN IndexDim(idx.vectors) ELSE 0]

\* a call of get_stats
GetStatsCall ==
    /\ constructed # "no"
    /\ last_call.op = "none"
    /\ last_call' = [NoCall EXCEPT !.op = "stats", !.stats = GetStats(index, r_chunks)]
    /\ UNCHANGED <<constructed, index, r_chunks, embedding_model>>
    /\ UNCHANGED <<disk_vars, ingest_vars, chunker_vars>>
    /\ UNCHANGED <<semantic_vars, embed_vars, other_vars>>

\* a retrieve call whose provider call raises: the exception leaves retrieve
RetrieveEmbedFails ==
    /\ constructed # "no"
    /\ last_call.op = "none"
    /\ index.loaded
    /\ \E query \in Queries, top_k \in 1..MaxTopK :
        last_call' = [NoCall EXCEPT
                        !.op = IF constructed = "HybridRetriever" THEN "hybrid" ELSE "retrieve",
                        !.query = query, !.top_k = top_k,
                        !.raised = "provider failure", !.embedded = TRUE]
    /\ UNCHANGED <<constructed, index, r_chunks, embedding_model>>
    /\ UNCHANGED <<disk_vars, ingest_vars, chunker_vars>>
    /\ UNCHANGED <<semantic_vars, embed_vars, other_vars>>

\* rag_query hands the results (or the error) of the call to its client; the
\* instance is ready for the next call
ResultDelivered ==
    /\ last_call.op \in {"retrieve", "hybrid", "keyword", "stats"}
    /\ last_call' = NoCall
    /\ UNCHANGED <<constructed, index, r_chunks, embedding_model>>
    /\ UNCHANGED <<disk_vars, ingest_vars, chunker_vars>>
    /\ UNCHANGED <<semantic_vars, embed_vars, other_vars>>

-----------------------------------------------------------------------------
(* Calls in progress on one instance: a call of caller c is "entered" with  *)
(* its arguments, "searched" when it has read the index, "done" when it    *)
(* has read the chunk records and built its results                        *)

Callers == {1, 2}

NoCallInProgress ==
    [pc |-> "idle", op |-> "none", query |-> <<>>, top_k |-> 0, threshold |-> <<0, 1>>,
     rerank |-> FALSE, weight |-> <<0, 1>>, raised |-> "none", hits |-> <<>>,
     results |-> <<>>, stats |-> NoStats]

CallsIdle == calls = [c \in Callers |-> NoCallInProgress]

\* the arguments of the calls in progress of the model
ConcurrentQueries == {T_x, <<"x", "y">>}
ConcurrentTopK == {1, 2}
ConcurrentThresholds == {<<0, 1>>, <<1, 2>>}

\* a faulty call: it consumes the last chunk record of the instance
FieldsAfterCallConsumed(idx, chs) ==
    [idx |-> idx, chs |-> IF chs = <<>> THEN chs ELSE SubSeq(chs, 1, Len(chs) - 1)]

\* the fields of the instance behind a statement of retrieve, _rerank,
\* _keyword_search or get_stats: none of them assigns self.index or
\* self.chunks, or changes a chunk record
FieldsAfterCall(idx, chs) == [idx |-> idx, chs |-> chs]

\* a caller enters retrieve (of the instance's class), _keyword_search or
\* get_stats
CallBegin(c) ==
    /\ constructed # "no"
    /\ calls[c].pc = "idle"
    /\ \E op \in {"retrieve", "hybrid", "keyword", "stats"},
          query \in ConcurrentQueries, top_k \in ConcurrentTopK,
          threshold \in ConcurrentThresholds, rerank \in BOOLEAN :
        /\ op = "retrieve" => constructed = "RAGRetriever"
        /\ op \in {"hybrid", "keyword"} => constructed = "HybridRetriever" /\ ~rerank
        /\ op \in {"keyword", "stats"} => threshold = <<0, 1>> /\ ~rerank
        /\ op = "stats" => query = T_x /\ top_k = 1
        /\ calls' = [calls EXCEPT ![c] =
                [NoCallInProgress EXCEPT
                    !.pc = "entered", !.op = op, !.query = query, !.top_k = top_k,
                    !.threshold = threshold, !.rerank = rerank,
                    !.weight = IF op = "hybrid" THEN <<7, 10>> ELSE <<0, 1>>]]
    /\ UNCHANGED <<constructed, index, r_chunks, embedding_model, last_call>>
    /\ UNCHANGED <<chunker_vars, disk_vars, ingest_vars, semantic_vars, embed_vars>>
    /\ UNCHANGED <<agent_vars, bucket_vars>>

\* lines 95-107 of retrieve: the test of self.index, the embedding of the
\* query and index.search; _keyword_search and get_stats, which read the
\* instance in one go
CallSearch(c) ==
    /\ calls[c].pc = "entered"
    /\ LET call == calls[c]
           k == IF call.op = "hybrid" THEN SearchK(call.top_k * 2, FALSE)
                ELSE SearchK(call.top_k, call.rerank)
       IN  calls' = [calls EXCEPT ![c] =
                IF call.op = "stats"
                THEN [call EXCEPT !.pc = "done", !.stats = GetStats(index, r_chunks)]
                ELSE IF call.op = "keyword"
                THEN [call EXCEPT !.pc = "done",
                        !.results = KeywordSearch(r_chunks, call.query, call.top_k)]
                ELSE IF ~index.loaded
                THEN [call EXCEPT !.pc = "done", !.raised = "Index not loaded"]
                ELSE [call EXCEPT !.pc = "searched",
                        !.hits = IndexSearch(index.vectors, Embed(<<call.query>>)[1], k)]]
    /\ index' = FieldsAfterCall(index, r_chunks).idx
    /\ r_chunks' = FieldsAfterCall(index, r_chunks).chs
    /\ UNCHANGED <<constructed, embedding_model, last_call>>
    /\ UNCHANGED <<chunker_vars, disk_vars, ingest_vars, semantic_vars, embed_vars>>
    /\ UNCHANGED <<agent_vars, bucket_vars>>

\* lines 110-131 of retrieve on the hits of a call
FinishRetrieve(hits, chs, query, top_k, threshold, rerank) ==
    LET results == Convert(hits, chs, threshold, 1)
    IN  Truncate(IF rerank /\ Len(results) > top_k
                 THEN Rerank(query, results, top_k) ELSE results, top_k)

\* lines 190-216 of HybridRetriever.retrieve on the semantic results
FinishHybrid(semantic_results, chs, query, top_k, semantic_weight) ==
    Take(SortDesc(FuseKeyword(FuseSemantic(<<>>, semantic_results, semantic_weight, 1),
                              KeywordSearch(chs, query, top_k * 2), semantic_weight, 1)),
         top_k)

\* the rest of the call: the hits become results
CallFinish(c) ==
    /\ calls[c].pc = "searched"
    /\ LET call == calls[c]
       IN  calls' = [calls EXCEPT ![c] =
                [call EXCEPT !.pc = "done", !.results =
                    IF call.op = "hybrid"
                    THEN FinishHybrid(
                            FinishRetrieve(call.hits, r_chunks, call.query, call.top_k * 2,
                                           call.threshold, FALSE),
                            r_chunks, call.query, call.top_k, call.weight)
                    ELSE FinishRetrieve(call.hits, r_chunks, call.query, call.top_k,
                                        call.threshold, call.rerank)]]
    /\ index' = FieldsAfterCall(index, r_chunks).idx
    /\ r_chunks' = FieldsAfterCall(index, r_chunks).chs
    /\ UNCHANGED <<constructed, embedding_model, last_call>>
    /\ UNCHANGED <<chunker_vars, disk_vars, ingest_vars, semantic_vars, embed_vars>>
    /\ UNCHANGED <<agent_vars, bucket_vars>>

-----------------------------------------------------------------------------
(* Agent.run and Agent.run_stream, both on the completions of one LLM. The  *)
(* LLM answers its k-th call with the k-th completion of llm_responses,    *)
(* whoever asks; the tools are the ones of agent/tools.py                  *)

\* None of Python, which an f-string renders as the text None
None == "None"

\* bool(x) of an Optional[str]
Truthy(x) == x # None /\ x # ""

\* the completions of the model's LLM
R_Think == "Thought: look"
R_Shell == "Thought: list\nAction: shell_execute(\"command\": \"ls\")"
R_Read == "Thought: read\nAction: file_read('notes')"
R_Rm == "Thought: wipe\nAction: rm(\"path\": \"x\")"
R_Final == "Thought: done\nFinal Answer: done"
R_ShellFinal == "Thought: list\nAction: shell_execute(\"command\": \"ls\")\nFinal Answer: done"
R_EmptyFinal == "Thought: stuck\nFinal Answer:"
Responses == {R_Think, R_Shell, R_Read, R_Rm, R_Final, R_ShellFinal, R_EmptyFinal}

\* AgentStep.tool_call = None
NoToolCall == [name |-> None, arguments |-> <<>>]

\* lines 236-237 of _parse_response on the completions of the model
ThoughtOf(content) ==
    CASE content = R_Think -> "look"
      [] content \in {R_Shell, R_ShellFinal} -> "list"
      [] content = R_Read -> "read"
      [] content = R_Rm -> "wipe"
      [] content = R_Final -> "done"
      [] OTHER -> "stuck"

\* lines 240-250: the Action line, its arguments read as JSON or, failing
\* that, as one "input"
ToolCallOf(content) ==
    CASE content \in {R_Shell, R_ShellFinal} ->
            [name |-> "shell_execute", arguments |-> << <<"command", "ls">> >>]
      [] content = R_Read -> [name |-> "file_read", arguments |-> << <<"input", "notes">> >>]
      [] content = R_Rm -> [name |-> "rm", arguments |-> << <<"path", "x">> >>]
      [] OTHER -> NoToolCall

\* lines 253-254: the text behind "Final Answer:", stripped
FinalAnswerOf(content) ==
    CASE content \in {R_Final, R_ShellFinal} -> "done"
      [] content = R_EmptyFinal -> ""
      [] OTHER -> None

ParseResponse(content, step_num) ==
    [step |-> step_num, thought |-> ThoughtOf(content), tool_call |-> ToolCallOf(content),
     tool_result |-> None, final_answer |-> FinalAnswerOf(content), error |-> None]

\* the keys of self.tools
Tools == {"shell_execute", "file_read", "file_write", "search_docs", "list_directory"}

\* _execute_tool: an unknown name raises ValueError; file_read(path) called
\* with input= raises TypeError; shell_execute("ls") returns its listing
ExecuteTool(tool_call) ==
    IF tool_call.name \notin Tools
    THEN [raised |-> TRUE, value |-> "Unknown tool: rm"]
    ELSE IF tool_call.name = "file_read"
    THEN [raised |-> TRUE,
          value |-> "file_read() got an unexpected keyword argument 'input'"]
    ELSE [raised |-> FALSE, value |-> "file1.txt  file2.py  documents/  README.md"]

\* a message is prefix + content
InitialMessages ==
    << [role |-> "system", prefix |-> "", content |-> "agent_planner prompt and tools"],
       [role |-> "user", prefix |-> "Task: ", content |-> "task"] >>
AssistantMessage(content) == [role |-> "assistant", prefix |-> "", content |-> content]
\* f"Observation: {step.tool_result or step.error}"
Observation(step) ==
    [role |-> "user", prefix |-> "Observation: ",
     content |-> IF Truthy(step.tool_result) THEN step.tool_result ELSE step.error]

\* max_iterations or self.max_iterations, self.max_iterations from
\* AGENT_MAX_ITERATIONS; the router passes an integer from 1 to 20
SelfMaxIterations == 10
EffectiveMaxIterations(requested) ==
    IF requested = 0 THEN SelfMaxIterations ELSE requested

UnableToComplete == "I was unable to complete the task within the allowed iterations."
NoAgentResult == [steps |-> <<>>, final_answer |-> None, tool_calls_count |-> 0, iterations |-> 0]

\* the k-th completion of the LLM is r
LlmComplete(k, r) == r \in Responses /\ (k <= Len(llm_responses) => r = llm_responses[k])
LlmAfter(k, r) == IF k <= Len(llm_responses) THEN llm_responses ELSE Append(llm_responses, r)

\* a faulty handler: the exception of the tool leaves run
ToolFailureAborts(step, message) == [pc |-> "raised", step |-> step, counted |-> 0]

\* lines 149-151 of run: the exception of the tool becomes the step's error
ToolFailure(step, message) ==
    [pc |-> "loop", step |-> [step EXCEPT !.error = message], counted |-> 0]

\* lines 145-151 of run
RunTool(step) ==
    LET out == ExecuteTool(step.tool_call)
    IN  IF out.raised THEN ToolFailure(step, out.value)
        ELSE [pc |-> "loop", step |-> [step EXCEPT !.tool_result = out.value], counted |-> 1]

\* lines 194-199 of run_stream
StreamTool(step) ==
    LET out == ExecuteTool(step.tool_call)
    IN  IF step.tool_call = NoToolCall THEN step
        ELSE IF out.raised THEN [step EXCEPT !.error = out.value]
        ELSE [step EXCEPT !.tool_result = out.value]

AgentIdle ==
    /\ llm_responses = <<>>
    /\ max_iterations = 1
    /\ a_pc = "idle" /\ a_iteration = 0 /\ a_steps = <<>> /\ a_messages = <<>>
    /\ a_tool_calls_count = 0 /\ a_sent = <<>> /\ a_executed = <<>> /\ a_result = NoAgentResult
    /\ s_pc = "idle" /\ s_iteration = 0 /\ s_yielded = <<>> /\ s_messages = <<>>
    /\ s_sent = <<>> /\ s_executed = <<>>

\* run and run_stream entered with the same task and the same max_iterations
AgentInit ==
    /\ llm_responses = <<>>
    /\ \E requested \in 1..MaxIterations : max_iterations = EffectiveMaxIterations(requested)
    /\ a_pc = "loop" /\ a_iteration = 0 /\ a_steps = <<>> /\ a_messages = InitialMessages
    /\ a_tool_calls_count = 0 /\ a_sent = <<>> /\ a_executed = <<>> /\ a_result = NoAgentResult
    /\ s_pc = "loop" /\ s_iteration = 0 /\ s_yielded = <<>> /\ s_messages = InitialMessages
    /\ s_sent = <<>> /\ s_executed = <<>>

\* a pass of run's loop whose completion holds a final answer (lines 128-141)
RunFinalAnswer ==
    /\ a_pc = "loop"
    /\ a_iteration < max_iterations
    /\ \E r \in Responses :
        LET step == ParseResponse(r, a_iteration + 1)
        IN  /\ LlmComplete(a_iteration + 1, r)
            /\ Truthy(step.final_answer)
            /\ llm_responses' = LlmAfter(a_iteration + 1, r)
            /\ a_sent' = Append(a_sent, a_messages)
            /\ a_steps' = Append(a_steps, step)
            /\ a_result' = [steps |-> Append(a_steps, step),
                            final_answer |-> step.final_answer,
                            tool_calls_count |-> a_tool_calls_count,
                            iterations |-> a_iteration + 1]
    /\ a_pc' = "returned"
    /\ UNCHANGED <<max_iterations, a_iteration, a_messages, a_tool_calls_count, a_executed>>
    /\ UNCHANGED stream_vars
    /\ UNCHANGED not_agent_vars

\* a pass whose completion holds a tool call and no final answer (128-161)
RunToolCall ==
    /\ a_pc = "loop"
    /\ a_iteration < max_iterations
    /\ \E r \in Responses :
        LET step == ParseResponse(r, a_iteration + 1)
            done == RunTool(step)
        IN  /\ LlmComplete(a_iteration + 1, r)
            /\ ~Truthy(step.final_answer)
            /\ step.tool_call # NoToolCall
            /\ llm_responses' = LlmAfter(a_iteration + 1, r)
            /\ a_sent' = Append(a_sent, a_messages)
            /\ a_executed' = Append(a_executed, step.tool_call)
            /\ a_steps' = Append(a_steps, done.step)
            /\ a_tool_calls_count' = a_tool_calls_count + done.counted
            /\ a_pc' = done.pc
            /\ a_messages' = IF done.pc = "loop"
                             THEN a_messages \o <<AssistantMessage(r), Observation(done.step)>>
                             ELSE a_messages
            /\ a_iteration' = IF done.pc = "loop" THEN a_iteration + 1 ELSE a_iteration
    /\ UNCHANGED <<max_iterations, a_result>>
    /\ UNCHANGED stream_vars
    /\ UNCHANGED not_agent_vars

\* a pass whose completion holds neither: nothing joins the conversation
RunNoToolCall ==
    /\ a_pc = "loop"
    /\ a_iteration < max_iterations
    /\ \E r \in Responses :
        LET step == ParseResponse(r, a_iteration + 1)
        IN  /\ LlmComplete(a_iteration + 1, r)
            /\ ~Truthy(step.final_answer)
            /\ step.tool_call = NoToolCall
            /\ llm_responses' = LlmAfter(a_iteration + 1, r)
            /\ a_sent' = Append(a_sent, a_messages)
            /\ a_steps' = Append(a_steps, step)
    /\ a_iteration' = a_iteration + 1
    /\ UNCHANGED <<max_iterations, a_pc, a_messages, a_tool_calls_count, a_executed, a_result>>
    /\ UNCHANGED stream_vars
    /\ UNCHANGED not_agent_vars

\* lines 163-169: the loop is over
RunExhausted ==
    /\ a_pc = "loop"
    /\ a_iteration >= max_iterations
    /\ a_result' = [steps |-> a_steps, final_answer |-> UnableToComplete,
                    tool_calls_count |-> a_tool_calls_count, iterations |-> max_iterations]
    /\ a_pc' = "returned"
    /\ UNCHANGED <<llm_responses, max_iterations, a_iteration, a_steps, a_messages,
                   a_tool_calls_count, a_sent, a_executed>>
    /\ UNCHANGED stream_vars
    /\ UNCHANGED not_agent_vars

\* a pass of run_stream's loop whose completion holds a final answer
\* (lines 191-204): its tool call, if any, is executed before the step is
\* yielded
StreamFinalAnswer ==
    /\ s_pc = "loop"
    /\ s_iteration < max_iterations
    /\ \E r \in Responses :
        LET step == ParseResponse(r, s_iteration + 1)
        IN  /\ LlmComplete(s_iteration + 1, r)
            /\ Truthy(step.final_answer)
            /\ llm_responses' = LlmAfter(s_iteration + 1, r)
            /\ s_sent' = Append(s_sent, s_messages)
            /\ s_executed' = IF step.tool_call = NoToolCall THEN s_executed
                             ELSE Append(s_executed, step.tool_call)
            /\ s_yielded' = Append(s_yielded, StreamTool(step))
    /\ s_pc' = "ended"
    /\ UNCHANGED <<max_iterations, s_iteration, s_messages>>
    /\ UNCHANGED run_vars
    /\ UNCHANGED not_agent_vars

\* a pass without a final answer (lines 191-210): the completion and an
\* observation join the conversation, tool call or not
StreamContinue ==
    /\ s_pc = "loop"
    /\ s_iteration < max_iterations
    /\ \E r \in Responses :
        LET step == ParseResponse(r, s_iteration + 1)
        IN  /\ LlmComplete(s_iteration + 1, r)
            /\ ~Truthy(step.final_answer)
            /\ llm_responses' = LlmAfter(s_iteration + 1, r)
            /\ s_sent' = Append(s_sent, s_messages)
            /\ s_executed' = IF step.tool_call = NoToolCall THEN s_executed
                             ELSE Append(s_executed, step.tool_call)
            /\ s_yielded' = Append(s_yielded, StreamTool(step))
            /\ s_messages' = s_messages \o
                             <<AssistantMessage(r), Observation(StreamTool(step))>>
    /\ s_iteration' = s_iteration + 1
    /\ UNCHANGED <<max_iterations, s_pc>>
    /\ UNCHANGED run_vars
    /\ UNCHANGED not_agent_vars

\* the generator's loop is over
StreamExhausted ==
    /\ s_pc = "loop"
    /\ s_iteration >= max_iterations
    /\ s_pc' = "ended"
    /\ UNCHANGED <<llm_responses, max_iterations, s_iteration, s_yielded, s_messages, s_sent,
                   s_executed>>
    /\ UNCHANGED run_vars
    /\ UNCHANGED not_agent_vars

-----------------------------------------------------------------------------
(* TokenBucket and RateLimitMiddleware.dispatch. clock is time.time(), in   *)
(* whole seconds; the token counts are exact rationals in lowest terms     *)

RECURSIVE Gcd(_, _)
Gcd(a, b) == IF b = 0 THEN a ELSE Gcd(b, a % b)
\* one representation for each value: lowest terms
RNorm(a) == LET g == Gcd(IF a[1] < 0 THEN -a[1] ELSE a[1], a[2])
            IN  <<a[1] \div g, a[2] \div g>>
\* min(a, b) of Python
RMin(a, b) == IF RGt(a, b) THEN b ELSE a

\* RATE_LIMIT_REQUESTS and RATE_LIMIT_WINDOW_SECONDS of the model
requests_limit == 2
window_seconds == 4
refill_rate == <<requests_limit, window_seconds>>

\* TokenBucket.__init__ at time now
NewTokenBucket(capacity, rate, now) ==
    [capacity |-> capacity, refill_rate |-> rate, tokens |-> <<capacity, 1>>,
     last_refill |-> now]

\* a faulty refill: the capacity does not cap the tokens
RefillUncapped(b, now) ==
    [b EXCEPT !.tokens = RNorm(RAdd(b.tokens, RMul(<<now - b.last_refill, 1>>, b.refill_rate))),
              !.last_refill = now]

\* TokenBucket._refill at time now
Refill(b, now) ==
    [b EXCEPT !.tokens = RNorm(RMin(<<b.capacity, 1>>,
                                    RAdd(b.tokens,
                                         RMul(<<now - b.last_refill, 1>>, b.refill_rate)))),
              !.last_refill = now]

\* TokenBucket.consume(n) at time now: the bucket afterwards and the return
Consume(b, n, now) ==
    LET r == Refill(b, now)
    IN  IF RGe(r.tokens, <<n, 1>>)
        THEN [bucket |-> [r EXCEPT !.tokens = RNorm(RSub(r.tokens, <<n, 1>>))],
              granted |-> TRUE]
        ELSE [bucket |-> r, granted |-> FALSE]

\* the requests of the model: request.state.api_key and request.client.host
\* (None: the request has no client)
Requests ==
    { [api_key |-> "key-1", host |-> "10.0.0.1"],
      [api_key |-> None, host |-> "10.0.0.1"],
      [api_key |-> None, host |-> None] }

\* lines 61-63 of dispatch
ClientId(request) ==
    IF Truthy(request.api_key) THEN request.api_key
    ELSE IF request.host # None THEN request.host ELSE "unknown"

\* self.buckets, a defaultdict, before its first request
NoBuckets == [c \in {} |-> NewTokenBucket(requests_limit, refill_rate, 0)]

\* self.buckets[client_id]: the client's bucket, made on its first request
BucketFor(client_id) ==
    IF client_id \in DOMAIN buckets THEN buckets[client_id]
    ELSE NewTokenBucket(requests_limit, refill_rate, clock)

NoResponse == [client_id |-> None, status |-> 0, forwarded |-> FALSE, remaining |-> 0]
NoConsume == [n |-> 0, returned |-> FALSE]

\* the refill rates of the bucket that is consumed from directly
BucketRates == {<<1, 2>>, <<3, 2>>}

BucketsIdle ==
    /\ clock = 0
    /\ buckets = NoBuckets
    /\ mw_response = NoResponse
    /\ bucket = NewTokenBucket(1, <<1, 2>>, 0)
    /\ consume_ret = NoConsume

\* the middleware before its first request, and one TokenBucket just made
BucketsInit ==
    /\ clock = 0
    /\ buckets = NoBuckets
    /\ mw_response = NoResponse
    /\ \E capacity \in 1..MaxCapacity, rate \in BucketRates :
        bucket = NewTokenBucket(capacity, rate, 0)
    /\ consume_ret = NoConsume

\* time passes
ClockTick ==
    /\ clock < MaxClock
    /\ clock' = clock + 1
    /\ UNCHANGED <<buckets, mw_response, bucket, consume_ret>>
    /\ UNCHANGED not_bucket_vars

\* bucket.consume(n)
ConsumeCall(n) ==
    /\ LET got == Consume(bucket, n, clock)
       IN  /\ bucket' = got.bucket
           /\ consume_ret' = [n |-> n, returned |-> got.granted]
    /\ UNCHANGED <<clock, buckets, mw_response>>
    /\ UNCHANGED not_bucket_vars

\* RateLimitMiddleware.dispatch on one request: 429, or the application's
\* response with the X-RateLimit headers
Dispatch(request) ==
    /\ LET client_id == ClientId(request)
           got == Consume(BucketFor(client_id), 1, clock)
       IN  /\ buckets' = [c \in DOMAIN buckets \cup {client_id} |->
                            IF c = client_id THEN got.bucket ELSE buckets[c]]
           /\ mw_response' =
                IF ~got.granted
                THEN [client_id |-> client_id, status |-> 429, forwarded |-> FALSE,
                      remaining |-> 0]
                ELSE [client_id |-> client_id, status |-> 200, forwarded |-> TRUE,
                      remaining |-> got.bucket.tokens[1] \div got.bucket.tokens[2]]
    /\ UNCHANGED <<clock, bucket, consume_ret>>
    /\ UNCHANGED not_bucket_vars

OthersIdle == CallsIdle /\ AgentIdle /\ BucketsIdle

-----------------------------------------------------------------------------
(* Specifications *)

\* the fixed-size chunker on every text, chunk_size and overlap of the bounds
InitChunk == ChunkerInit /\ DiskEmpty /\ IngestIdle /\ RetrieverIdle /\ SemanticIdle /\ EmbedIdle /\ OthersIdle
NextChunk == ChunkEnter \/ ChunkStep \/ ChunkReturn
SpecChunk == InitChunk /\ [][NextChunk]_vars
\* the loop is the only thread: a pass that can be taken is taken
FairSpecChunk == SpecChunk /\ WF_vars(NextChunk)

\* the semantic chunker on every text, max_chunk_size and min_chunk_size of
\* the bounds
InitSemantic ==
    ChunkerIdle /\ DiskEmpty /\ IngestIdle /\ RetrieverIdle /\ SemanticInit /\ EmbedIdle /\ OthersIdle
NextSemantic == SemSection \/ SemParagraph \/ SemReturn
SpecSemantic == InitSemantic /\ [][NextSemantic]_vars

\* the code-aware chunker on texts with and without definitions
InitCode ==
    ChunkerIdle /\ DiskEmpty /\ IngestIdle /\ RetrieverIdle /\ CodeInit /\ EmbedIdle
        /\ OthersIdle
NextCode == CodeSection \/ CodeReturn
SpecCode == InitCode /\ [][NextCode]_vars

\* embed on lists of every length up to MaxTexts, the provider failing at any
\* batch
InitEmbed ==
    ChunkerIdle /\ DiskEmpty /\ IngestIdle /\ RetrieverIdle /\ SemanticIdle /\ EmbedInit /\ OthersIdle
NextEmbed == EmbedBatchOk \/ EmbedBatchFails \/ EmbedReturn
SpecEmbed == InitEmbed /\ [][NextEmbed]_vars

\* ingestion runs, one after the other, into one output path
InitIngest == ChunkerIdle /\ DiskEmpty /\ IngestIdle /\ RetrieverIdle /\ SemanticIdle /\ EmbedIdle /\ OthersIdle
NextIngest ==
    \/ IngestStart
    \/ IngestEmbed
    \/ IngestWriteIndex
    \/ IngestWriteChunks
    \/ IngestWriteMeta
    \/ IngestReturn
    \/ IngestUnknownModel
    \/ IngestEmbedFails
    \/ IngestFails
    \/ IngestFailsWriting
SpecIngest == InitIngest /\ [][NextIngest]_vars

\* the producers of chunk ids: a call of one of the three chunkers, or
\* ingestion runs
InitChunkers == InitChunk \/ InitSemantic \/ InitCode \/ InitIngest
\* a run of ingest_documents, in a behaviour that follows no chunker call
IngestRun == pc = "idle" /\ sem_pc = "idle" /\ NextIngest
NextChunkers == NextChunk \/ NextSemantic \/ NextCode \/ IngestRun
SpecChunkers == InitChunkers /\ [][NextChunkers]_vars

\* the files a path holds when a retriever is constructed on it: those of a
\* run over src, possibly without its index (never ingested) and with the
\* chunks file missing or left by an earlier run over the first file of src
DiskOfRuns ==
    \E src \in Sources :
        LET cs == IngestDirectory(src, 1)
            old == IngestFile(1, src[1])
        IN  /\ cs # <<>>
            /\ f_index \in {AbsentIndex,
                   [state |-> "complete", run |-> 2,
                    data |-> Embed([i \in 1..Len(cs) |-> cs[i].content])]}
            /\ f_chunks \in {AbsentChunks,
                   [state |-> "complete", run |-> 2, data |-> ChunkData(cs)]}
                   \cup (IF old # <<>> /\ old # cs
                         THEN {[state |-> "complete", run |-> 1, data |-> ChunkData(old)]}
                         ELSE {})
            /\ f_meta = IF f_index.run = 2 /\ f_chunks.run = 2
                        THEN [state |-> "complete", run |-> 2,
                              data |-> Manifest(cs, f_index.data)]
                        ELSE AbsentMeta

InitRetrieve == ChunkerIdle /\ DiskOfRuns /\ IngestIdle /\ RetrieverIdle /\ SemanticIdle /\ EmbedIdle /\ OthersIdle
NextRetrieve ==
    \/ Construct
    \/ Retrieve
    \/ HybridRetrieve
    \/ KeywordSearchCall
    \/ GetStatsCall
    \/ RetrieveEmbedFails
    \/ ResultDelivered
SpecRetrieve == InitRetrieve /\ [][NextRetrieve]_vars

\* the snapshot of a run over one of the corpora, or no file at all
DiskOfRun ==
    \/ DiskEmpty
    \/ \E src \in Corpora :
        LET cs == IngestDirectory(src, 1)
            emb == Embed([i \in 1..Len(cs) |-> cs[i].content])
        IN  /\ cs # <<>>
            /\ f_index = [state |-> "complete", run |-> 1, data |-> emb]
            /\ f_chunks = [state |-> "complete", run |-> 1, data |-> ChunkData(cs)]
            /\ f_meta = [state |-> "complete", run |-> 1, data |-> Manifest(cs, emb)]

\* two callers on one instance, their calls interleaved statement by statement
InitConcurrent ==
    ChunkerIdle /\ DiskOfRun /\ IngestIdle /\ RetrieverIdle /\ SemanticIdle /\ EmbedIdle
        /\ OthersIdle
NextConcurrent ==
    \/ Construct
    \/ \E c \in Callers : CallBegin(c)
    \/ \E c \in Callers : CallSearch(c)
    \/ \E c \in Callers : CallFinish(c)
SpecConcurrent == InitConcurrent /\ [][NextConcurrent]_vars

\* persist, then load: ingestion runs into an empty output path, then a
\* retriever constructed on that path once a run has returned, and its calls
IngestBeforeLoad == constructed = "no" /\ IngestStart
LoadAfterIngest == ingest_pc = "returned" /\ Construct
NextRoundTrip ==
    \/ IngestBeforeLoad
    \/ IngestEmbed
    \/ IngestWriteIndex
    \/ IngestWriteChunks
    \/ IngestWriteMeta
    \/ IngestReturn
    \/ LoadAfterIngest
    \/ Retrieve
    \/ GetStatsCall
    \/ ResultDelivered
SpecRoundTrip == InitIngest /\ [][NextRoundTrip]_vars

\* Agent.run alone; every pass of its loop is eventually taken
InitAgent ==
    ChunkerIdle /\ DiskEmpty /\ IngestIdle /\ RetrieverIdle /\ SemanticIdle /\ EmbedIdle
        /\ CallsIdle /\ AgentInit /\ BucketsIdle
NextAgentRun == RunFinalAnswer \/ RunToolCall \/ RunNoToolCall \/ RunExhausted
SpecAgentRun == InitAgent /\ [][NextAgentRun]_vars /\ WF_vars(NextAgentRun)

\* Agent.run and Agent.run_stream side by side on the same completions
NextAgentStream == StreamFinalAnswer \/ StreamContinue \/ StreamExhausted
NextAgent == NextAgentRun \/ NextAgentStream
SpecAgent == InitAgent /\ [][NextAgent]_vars

\* the middleware under its clients' requests, or one bucket under consume
InitBuckets ==
    ChunkerIdle /\ DiskEmpty /\ IngestIdle /\ RetrieverIdle /\ SemanticIdle /\ EmbedIdle
        /\ CallsIdle /\ AgentIdle /\ BucketsInit
ConsumeAlone == buckets = NoBuckets /\ \E n \in 1..MaxConsume : ConsumeCall(n)
DispatchAlone == consume_ret = NoConsume /\ \E request \in Requests : Dispatch(request)
NextBuckets == ClockTick \/ ConsumeAlone \/ DispatchAlone
SpecBuckets == InitBuckets /\ [][NextBuckets]_vars

-----------------------------------------------------------------------------
(* Properties of the snapshot files (SpecIngest) *)

SnapshotComplete(files) ==
    /\ files[1].state = "complete" /\ files[2].state = "complete"
    /\ files[3].state = "complete"
    /\ files[1].run = files[2].run /\ files[2].run = files[3].run

\* C1: snapshot writes are all-or-nothing. When a run started on a path that
\* held a complete snapshot, a failure of the run leaves exactly that
\* snapshot's three files, and at no point of the run do the index file and
\* the chunks file come from different runs.
C1_AllOrNothing ==
    SnapshotComplete(prev_snapshot) =>
        /\ ingest_pc = "failed" => <<f_index, f_chunks, f_meta>> = prev_snapshot
        /\ (f_index.state # "absent" /\ f_chunks.state # "absent")
                => f_index.run = f_chunks.run

\* C2: after a run that returns with an empty error list, the three files are
\* those of this run, the index holds as many vectors as the chunks file
\* holds records and as the manifest's total_chunks says, record i is chunk i
\* of the run, and vector i is the embedding of the content of record i.
C2_SnapshotAligned ==
    (ingest_pc = "returned" /\ result.errors = <<>>) =>
        /\ SnapshotComplete(<<f_index, f_chunks, f_meta>>)
        /\ f_index.run = run
        /\ Len(f_index.data) = Len(f_chunks.data)
        /\ Len(f_chunks.data) = f_meta.data.total_chunks
        /\ Len(f_chunks.data) = Len(ing_chunks)
        /\ \A i \in 1..Len(f_chunks.data) :
            /\ f_chunks.data[i].content = ing_chunks[i].content
            /\ f_chunks.data[i].id = ing_chunks[i].id
            /\ f_index.data[i] = EmbedOne(f_chunks.data[i].content)

\* a second run has returned without errors, over a snapshot of the first
\* run, with two chunks whose embeddings differ
C2_Witness ==
    /\ ingest_pc = "returned" /\ result.errors = <<>>
    /\ run = 2
    /\ SnapshotComplete(prev_snapshot)
    /\ Len(f_chunks.data) >= 2
    /\ f_index.data[1] # f_index.data[2]

-----------------------------------------------------------------------------
(* Properties of the retriever (SpecRetrieve) *)

\* the instance's vectors and chunk records are those of one snapshot
Aligned ==
    /\ Len(index.vectors) = Len(r_chunks)
    /\ \A i \in 1..Len(r_chunks) : index.vectors[i] = EmbedOne(r_chunks[i].content)

\* 1 / (1 + distance) of the loaded chunk with this id, for the last call's query
SimilarityOf(id) ==
    LET pos == CHOOSE i \in 1..Len(r_chunks) : r_chunks[i].id = id
    IN  Similarity(L2(EmbedOne(last_call.query), index.vectors[pos]))

Answered(op) == last_call.op = op /\ last_call.raised = "none"

\* C3: RAGRetriever.retrieve returns at most top_k results, and exactly n
\* when the loaded snapshot holds n < top_k chunks and threshold is 0.
C3_TopKBound ==
    Answered("retrieve") =>
        /\ Len(last_call.results) <= last_call.top_k
        /\ (Aligned /\ Len(r_chunks) < last_call.top_k /\ last_call.threshold[1] = 0)
                => Len(last_call.results) = Len(r_chunks)

\* a snapshot of 2 chunks, top_k = 3, threshold 0, rerank requested: 2 results
C3_Witness ==
    /\ Answered("retrieve")
    /\ Aligned /\ Len(r_chunks) = 2
    /\ last_call.top_k = 3 /\ last_call.threshold[1] = 0 /\ last_call.rerank
    /\ Len(last_call.results) = 2

\* C4: every result of RAGRetriever.retrieve has similarity 1/(1+distance)
\* >= threshold, and the results are in descending order of their score,
\* with and without rerank, whether or not the rerank stage ran.
C4_ThresholdAndOrder ==
    Answered("retrieve") =>
        /\ \A i \in 1..Len(last_call.results) :
              RGe(SimilarityOf(last_call.results[i].id), last_call.threshold)
        /\ \A i \in 1..Len(last_call.results), j \in 1..Len(last_call.results) :
              i < j => RGe(last_call.results[i].score, last_call.results[j].score)

\* the rerank stage ran under a positive threshold and its boost decided the
\* outcome: two results are returned, the last of them of lower similarity
\* than a chunk that was left out
C4_Witness ==
    /\ Answered("retrieve") /\ last_call.reranked
    /\ last_call.threshold[1] > 0
    /\ Len(last_call.results) >= 2
    /\ \E c \in 1..Len(r_chunks) :
          /\ \A i \in 1..Len(last_call.results) : last_call.results[i].id # r_chunks[c].id
          /\ RGt(SimilarityOf(r_chunks[c].id),
                 SimilarityOf(last_call.results[Len(last_call.results)].id))

\* C5: every entry HybridRetriever.retrieve returns is a chunk whose semantic
\* similarity is >= threshold.
C5_HybridThreshold ==
    (Answered("hybrid") /\ Aligned) =>
        \A i \in 1..Len(last_call.results) :
            RGe(SimilarityOf(last_call.results[i].id), last_call.threshold)

\* C6: with rerank = false, a call with threshold t2 returns no more results
\* than the same call with any threshold t1 <= t2 returns on this instance,
\* and each of its results has similarity >= t2.
C6_ThresholdMonotone ==
    (Answered("retrieve") /\ ~last_call.rerank) =>
        /\ \A t1 \in Thresholds :
              RGe(last_call.threshold, t1) =>
                  Len(last_call.results) <=
                      Len(RetrieveOp(index, r_chunks, last_call.query, last_call.top_k,
                                     t1, FALSE).results)
        /\ \A i \in 1..Len(last_call.results) :
              RGe(SimilarityOf(last_call.results[i].id), last_call.threshold)

\* a call with threshold 1/2 that returned a result, and fewer results than
\* the same call with threshold 0 returns
C6_Witness ==
    /\ Answered("retrieve") /\ ~last_call.rerank
    /\ last_call.threshold = <<1, 2>>
    /\ Len(last_call.results) >= 1
    /\ Len(last_call.results) <
          Len(RetrieveOp(index, r_chunks, last_call.query, last_call.top_k,
                         <<0, 1>>, FALSE).results)

\* C7: constructing a retriever on a path without an index file does not
\* raise and leaves it with no index and no chunks; every retrieve call on
\* such an instance, base or hybrid, raises "Index not loaded" before it
\* embeds the query or searches, and leaves the instance as it was.
C7_Step ==
    /\ (constructed = "no" /\ f_index.state = "absent") =>
            /\ constructed' # "no"
            /\ last_call'.raised = "none"
            /\ index' = NoIndex
            /\ r_chunks' = <<>>
    /\ (constructed # "no" /\ ~index.loaded /\ last_call'.op \in {"retrieve", "hybrid"}) =>
            /\ last_call'.raised = "Index not loaded"
            /\ ~last_call'.embedded
            /\ ~last_call'.searched
            /\ last_call'.results = <<>>
            /\ UNCHANGED <<constructed, index, r_chunks, embedding_model>>
C7_NotInitialized == [][C7_Step]_vars

\* a hybrid retriever built on a path that holds a chunks file but no index
\* file has answered a call with "Index not loaded"
C7_Witness ==
    /\ constructed = "HybridRetriever"
    /\ f_index.state = "absent" /\ f_chunks.state = "complete"
    /\ last_call.op = "hybrid" /\ last_call.raised = "Index not loaded"

-----------------------------------------------------------------------------
(* Properties of the fixed-size chunker (SpecChunk, FairSpecChunk) *)

\* C8: FixedSizeChunker.chunk terminates: every run reaches the return
\* statement (or emits more chunks than the model follows).
C8_Terminates == <>(pc \in {"done", "capped"})

\* the number of positions the ranges [start_index, end_index) of a, b share
Shared(a, b) ==
    LET lo == IF a.start_index >= b.start_index THEN a.start_index ELSE b.start_index
        hi == Min(a.end_index, b.end_index)
    IN  IF hi > lo THEN hi - lo ELSE 0

\* C9: at every point of a run the emitted chunks are non-empty after
\* trimming, their start_index does not decrease in emission order, and two
\* consecutive chunks share at most `overlap` positions.
C9_ChunksOrdered ==
    /\ \A i \in 1..Len(chunks) : Strip(chunks[i].content) # <<>>
    /\ \A i \in 1..(Len(chunks) - 1) :
          /\ chunks[i].start_index <= chunks[i + 1].start_index
          /\ Shared(chunks[i], chunks[i + 1]) <= overlap

RECURSIVE Reconstruct(_, _)
\* the contents of chunks i.., each without the part its range shares with
\* its predecessor's
Reconstruct(cs, i) ==
    IF i > Len(cs) THEN <<>>
    ELSE LET drop == IF i = 1 THEN 0 ELSE Shared(cs[i - 1], cs[i])
         IN  SubSeq(cs[i].content, drop + 1, Len(cs[i].content)) \o Reconstruct(cs, i + 1)

\* C10: the contents of the returned chunks, overlaps removed, concatenate
\* to the trimmed text.
C10_Reconstructs == pc = "done" => Reconstruct(chunks, 1) = Strip(text)

-----------------------------------------------------------------------------
(* Properties of the semantic chunker (SpecSemantic) *)

\* the unit (section or paragraph) that the next pass accumulates, if any
HasUnit ==
    \/ sem_pc = "paragraphs"
    \/ /\ sem_pc = "sections" /\ section_i <= Len(sections)
       /\ Len(sections[section_i]) <= max_chunk_size
Unit == IF sem_pc = "paragraphs" THEN paragraphs[para_i] ELSE sections[section_i]

IsPrefix(a, b) == Len(a) <= Len(b) /\ SubSeq(b, 1, Len(a)) = a

\* C11: when the next unit would overflow the buffer and the buffer is shorter
\* than min_chunk_size, the pass emits no chunk and keeps the buffered text:
\* the buffer after the pass starts with the buffer before it.
C11_Step ==
    (/\ HasUnit
     /\ Len(current_chunk) + Len(Unit) > max_chunk_size
     /\ Len(current_chunk) < min_chunk_size
     /\ Strip(current_chunk) # <<>>)
        => /\ sem_chunks' = sem_chunks
           /\ IsPrefix(current_chunk, current_chunk')
C11_ShortBufferKept == [][C11_Step]_vars

\* C12: a call that returns on a text with non-whitespace content has emitted
\* at least one chunk.
C12_FinalFlush ==
    (sem_pc = "done" /\ Strip(sem_text) # <<>>) => Len(sem_chunks) >= 1

-----------------------------------------------------------------------------
(* Properties of embed (SpecEmbed) *)

\* C13: a call of embed that returns hands back one vector per input text, in
\* input order: as many vectors as texts, vector i the embedding of text i.
C13_EmbedAligned ==
    e_pc = "returned" =>
        /\ e_ret.kind = "value"
        /\ Len(e_ret.value) = Len(e_texts)
        /\ \A i \in 1..Len(e_texts) : e_ret.value[i] = EmbedOne(e_texts[i])

\* a call over more than two batches has returned
C13_Witness == e_pc = "returned" /\ Len(e_texts) > 2 * batch_size

\* C14: once a provider call of a batch has failed, what the caller gets is
\* the exception: no vector list, in particular not the embeddings of the
\* batches completed before.
C14_NoPartialResult == e_failed => (e_pc = "raised" /\ e_ret.kind = "exception")

\* the provider failed after at least one batch was embedded
C14_Witness == e_failed /\ Len(all_embeddings) >= batch_size

-----------------------------------------------------------------------------
(* Properties of the value returned by ingest_documents (SpecIngest) *)

\* the files of src that are not skipped: text that yields at least one chunk
Contributing(src) == {p \in 1..Len(src) : src[p].kind = "text" /\ src[p].pieces # <<>>}

\* C15: a run over a source without a contributing file (no file at all, or
\* only blank and undecodable files) does not raise: it returns at once, with
\* zero documents, zero chunks and the error list ["No documents found"].
C15_EmptyCorpus ==
    (run >= 1 /\ Contributing(source) = {}) =>
        /\ ingest_pc = "returned"
        /\ result.raised = FALSE
        /\ result.documents = 0
        /\ result.chunks = 0
        /\ result.errors = <<"No documents found">>

\* a run over a blank and an undecodable file has returned
C15_Witness ==
    /\ ingest_pc = "returned" /\ run >= 1 /\ Contributing(source) = {}
    /\ \E p \in 1..Len(source) : source[p].kind = "binary"
    /\ \E p \in 1..Len(source) : source[p].kind = "text"

\* C16: a run that returns reports as documents the number of files that
\* contributed a chunk; a skipped file (blank or undecodable) does not make
\* the run raise, is not counted and leaves no entry in the error list.
C16_DocumentsProcessed ==
    ingest_pc = "returned" =>
        /\ result.raised = FALSE
        /\ result.documents = Cardinality(Contributing(source))
        /\ Contributing(source) # {} => result.errors = <<>>

\* a run over an undecodable file, a blank file and a file of two chunks has
\* returned
C16_Witness ==
    /\ ingest_pc = "returned" /\ result.chunks = 2 /\ result.documents = 1
    /\ \E p \in 1..Len(source) : source[p].kind = "binary"
    /\ \E p \in 1..Len(source) : source[p] = TextFile(<<>>)

-----------------------------------------------------------------------------
(* Properties of hybrid retrieval and keyword search (SpecRetrieve) *)

\* the ids of a result list, in order
Ids(rs) == [i \in 1..Len(rs) |-> rs[i].id]

IdSet(rs) == {rs[i].id : i \in 1..Len(rs)}

REq(a, b) == a[1] * b[2] = b[1] * a[2]

\* C17: with semantic_weight = 1 a hybrid call returns the ids, in order, that
\* RAGRetriever.retrieve returns for the same query, top_k and threshold with
\* rerank off.
C17_WeightOneIsSemantic ==
    (Answered("hybrid") /\ Aligned /\ last_call.weight = <<1, 1>>) =>
        Ids(last_call.results) =
            Ids(RetrieveOp(index, r_chunks, last_call.query, last_call.top_k,
                           last_call.threshold, FALSE).results)

\* C18: with semantic_weight = 0 (and the default threshold 0) a hybrid call
\* returns the ids, in order, of the first top_k results of keyword search
\* for the same query.
C18_WeightZeroIsKeyword ==
    (Answered("hybrid") /\ Aligned /\ last_call.weight = <<0, 1>>
        /\ last_call.threshold = <<0, 1>>) =>
        Ids(last_call.results) =
            Ids(KeywordSearch(r_chunks, last_call.query, last_call.top_k))

\* |query_words & content_words| / |query_words| of the loaded chunk with this
\* id, for the last call's query
KeywordScoreOf(id) ==
    LET pos == CHOOSE i \in 1..Len(r_chunks) : r_chunks[i].id = id
        query_words == WordSet(last_call.query)
    IN  <<Cardinality(query_words \cap WordSet(r_chunks[pos].content)),
          Cardinality(query_words)>>

\* the candidates of the two sources of the last hybrid call
SemanticCandidates ==
    IdSet(RetrieveOp(index, r_chunks, last_call.query, 2 * last_call.top_k,
                     last_call.threshold, FALSE).results)
KeywordCandidates == IdSet(KeywordSearch(r_chunks, last_call.query, 2 * last_call.top_k))

\* similarity * w when the chunk is a semantic candidate, plus
\* keyword_score * (1 - w) when it is a keyword candidate
FusedScoreOf(id) ==
    RAdd(IF id \in SemanticCandidates
         THEN RMul(SimilarityOf(id), last_call.weight) ELSE <<0, 1>>,
         IF id \in KeywordCandidates
         THEN RMul(KeywordScoreOf(id), RSub(ROne, last_call.weight)) ELSE <<0, 1>>)

\* C19: in the results of a hybrid call every chunk id appears once, every
\* candidate of either source is in the fused set (as many results as top_k
\* allows), and the score of a result is similarity * w for a semantic
\* candidate plus keyword_score * (1 - w) for a keyword candidate, a source
\* that does not have the chunk contributing 0.
C19_FusedScores ==
    (Answered("hybrid") /\ Aligned) =>
        LET rs == last_call.results IN
        /\ \A i, j \in 1..Len(rs) : i # j => rs[i].id # rs[j].id
        /\ IdSet(rs) \subseteq SemanticCandidates \cup KeywordCandidates
        /\ Len(rs) = Min(last_call.top_k,
                         Cardinality(SemanticCandidates \cup KeywordCandidates))
        /\ \A i \in 1..Len(rs) : REq(rs[i].score, FusedScoreOf(rs[i].id))

\* a hybrid call with a weight strictly between 0 and 1 has returned a chunk
\* that both sources have and a chunk that only keyword search has
C19_Witness ==
    /\ Answered("hybrid") /\ Aligned /\ last_call.weight = <<7, 10>>
    /\ \E i \in 1..Len(last_call.results) :
        last_call.results[i].id \in SemanticCandidates \cap KeywordCandidates
    /\ \E i \in 1..Len(last_call.results) :
        last_call.results[i].id \in KeywordCandidates \ SemanticCandidates

\* the 1-based positions of the loaded chunks that share a word with the query
Matching ==
    {i \in 1..Len(r_chunks) :
        WordSet(last_call.query) \cap WordSet(r_chunks[i].content) # {}}

\* C20: keyword search returns the matching chunks only, each once, with score
\* |query_words & content_words| / |query_words|, which lies in (0, 1]; the
\* results are in descending order of score, they are the best min(top_k,
\* number of matching chunks) of them, and a query without words returns the
\* empty list (no score with denominator 0 is ever computed).
C20_KeywordSearch ==
    Answered("keyword") =>
        LET rs == last_call.results IN
        /\ \A i \in 1..Len(rs) :
            /\ \E p \in Matching : r_chunks[p].id = rs[i].id
            /\ rs[i].score[2] > 0
            /\ REq(rs[i].score, KeywordScoreOf(rs[i].id))
            /\ RGt(rs[i].score, <<0, 1>>) /\ RGe(ROne, rs[i].score)
        /\ \A i, j \in 1..Len(rs) : i < j =>
            /\ rs[i].id # rs[j].id
            /\ RGe(rs[i].score, rs[j].score)
        /\ Len(rs) = Min(last_call.top_k, Cardinality(Matching))
        /\ \A p \in Matching :
            (r_chunks[p].id \notin IdSet(rs)) =>
                RGe(rs[Len(rs)].score, KeywordScoreOf(r_chunks[p].id))
        /\ WordSet(last_call.query) = {} => rs = <<>>

\* keyword search has returned fewer chunks than match, in an order that is
\* not the order of the chunks file
C20_Witness ==
    /\ Answered("keyword")
    /\ Len(last_call.results) < Cardinality(Matching)
    /\ Len(last_call.results) >= 2
    /\ RGt(last_call.results[1].score, last_call.results[2].score)
    /\ \E p, q \in Matching :
        /\ p > q
        /\ r_chunks[p].id = last_call.results[1].id
        /\ r_chunks[q].id = last_call.results[2].id

-----------------------------------------------------------------------------
(* Properties of a snapshot that is persisted and then loaded              *)
(* (SpecRoundTrip, SpecRetrieve)                                           *)

\* the retriever was constructed on the snapshot of the run that returned last
LoadedAfterSuccess ==
    constructed # "no" /\ ingest_pc = "returned" /\ result.errors = <<>>

C22_AllThreeRequired ==
    (constructed # "no" /\ index.loaded) =>
        /\ f_index.state # "absent"
        /\ f_chunks.state # "absent"
        /\ f_meta.state # "absent"

-----------------------------------------------------------------------------
(* Properties of calls in progress on one instance (SpecConcurrent) *)

\* what the call of caller c returns when it runs alone on the loaded instance
Alone(c) ==
    LET call == calls[c]
        loaded == IF f_index.state = "absent" THEN LoadMissing ELSE LoadPresent
    IN  IF call.op = "retrieve"
        THEN RetrieveOp(loaded.idx, loaded.chs, call.query, call.top_k,
                        call.threshold, call.rerank)
        ELSE IF call.op = "hybrid"
        THEN HybridOp(loaded.idx, loaded.chs, call.query, call.top_k,
                      call.threshold, call.weight)
        ELSE [raised |-> "none",
              results |-> IF call.op = "keyword"
                          THEN KeywordSearch(loaded.chs, call.query, call.top_k)
                          ELSE <<>>]

\* C23: whatever calls have run or are in progress on a constructed instance,
\* its index and its chunk records are those it loaded, and every call that
\* is done has the outcome it has when it runs alone.
C23_ReadOnlyAfterLoad ==
    constructed # "no" =>
        /\ index = (IF f_index.state = "absent" THEN LoadMissing ELSE LoadPresent).idx
        /\ r_chunks = (IF f_index.state = "absent" THEN LoadMissing ELSE LoadPresent).chs
        /\ \A c \in Callers :
            calls[c].pc = "done" =>
                /\ calls[c].raised = Alone(c).raised
                /\ calls[c].results = Alone(c).results
                /\ calls[c].op = "stats" =>
                    calls[c].stats = [total_chunks |-> Len(f_chunks.data),
                                      dimensions |-> IndexDim(f_index.data)]

\* a reranked retrieve call is done with two results while the other caller
\* has searched the index and not yet read the chunk records
C23_Witness ==
    /\ calls[1].pc = "done" /\ calls[1].op = "retrieve" /\ calls[1].rerank
    /\ Len(calls[1].results) = 2
    /\ calls[2].pc = "searched"

-----------------------------------------------------------------------------
(* Properties of the stages of ingest_documents (SpecIngest) *)

\* C24: a run configured with an embedding backend that get_embedding_model
\* does not know fails before any source file is read or chunked: it raises
\* and holds no chunks.
C24_FailFast ==
    (run >= 1 /\ model_type \notin KnownModelTypes) =>
        (result.raised /\ ing_chunks = <<>>)

\* C27: a run calls embed at most once, after every file was chunked and over
\* the texts of all chunks; as long as embed has not returned (it was not
\* called, it raised, or the corpus was empty) the three files are those the
\* run found at the output path.
C27_EmbedOnceBeforeWrites ==
    /\ embed_calls <= 1
    /\ embed_calls = 1 => ing_chunks = IngestDirectory(source, 1)
    /\ embeddings # <<>> =>
        /\ embed_calls = 1
        /\ embeddings = [i \in 1..Len(IngestDirectory(source, 1)) |->
                            EmbedOne(IngestDirectory(source, 1)[i].content)]
    /\ (run >= 1 /\ embeddings = <<>>) => <<f_index, f_chunks, f_meta>> = prev_snapshot

\* the embed call of a second run over two files raised, and the snapshot of
\* the first run is still at the output path
C27_Witness ==
    /\ run = 2 /\ ingest_pc = "failed" /\ embed_calls = 1 /\ embeddings = <<>>
    /\ Cardinality(Contributing(source)) = 2
    /\ SnapshotComplete(<<f_index, f_chunks, f_meta>>)

-----------------------------------------------------------------------------
(* Properties of chunk ids (SpecChunkers) *)

\* the chunks carry the sequence numbers 0, 1, 2, ... in their ids and in
\* metadata.chunk_index
Numbered(cs) ==
    \A i \in 1..Len(cs) :
        cs[i].id = <<"doc", i - 1>> /\ cs[i].metadata.chunk_index = i - 1

\* C25: the chunks emitted by a call of the fixed-size, the semantic or the
\* code-aware chunker carry the document id and the sequence numbers 0, 1,
\* 2, ... in emission order, equal to metadata.chunk_index; the chunk ids of
\* an ingestion run are pairwise distinct and numbered per file.
C25_ChunkIds ==
    /\ Numbered(chunks)
    /\ Numbered(sem_chunks)
    /\ \A i, j \in 1..Len(ing_chunks) : i # j => ing_chunks[i].id # ing_chunks[j].id
    /\ \A i \in 1..Len(ing_chunks) :
        /\ ing_chunks[i].id[1] = ing_chunks[i].metadata.source
        /\ ing_chunks[i].id[2] = ing_chunks[i].metadata.chunk_index
        /\ ing_chunks[i].id[2] =
            Cardinality({j \in 1..(i - 1) : ing_chunks[j].id[1] = ing_chunks[i].id[1]})

\* a call of the semantic chunker has returned three chunks
C25_Witness ==
    /\ sem_pc = "done" /\ Len(sem_chunks) = 3
    /\ "type" \notin DOMAIN sem_chunks[1].metadata

-----------------------------------------------------------------------------
(* Properties of the rerank stage (SpecRetrieve) *)

\* the hits of the last retrieve call that survive the range check and the
\* threshold, in search order: top_k * 3 hits are searched when rerank is
\* requested, top_k otherwise
Survivors ==
    LET hits == IndexSearch(index.vectors, EmbedOne(last_call.query),
                            IF last_call.rerank THEN 3 * last_call.top_k
                            ELSE last_call.top_k)
        Survives(h) ==
            /\ h.idx >= 0 /\ h.idx < Len(r_chunks)
            /\ RGe(<<1, 1 + h.dist>>, last_call.threshold)
    IN  SelectSeq(hits, Survives)

\* similarity + 0.05 * |query_words & content_words| of a hit
Boosted(h) ==
    RAdd(<<1, 1 + h.dist>>,
         <<5 * Cardinality(WordSet(last_call.query)
                            \cap WordSet(r_chunks[h.idx + 1].content)), 100>>)

\* the position among the survivors of the chunk with this id
SurvivorOf(id) == CHOOSE i \in 1..Len(Survivors) : r_chunks[Survivors[i].idx + 1].id = id

\* C26: the rerank stage of retrieve runs exactly when rerank is requested and
\* more than top_k candidates survived the threshold. When it runs, the
\* results are top_k survivors with score similarity + 0.05 * overlap (not
\* below the similarity), in descending order of that score, survivors of
\* equal score in search order, and no survivor left out has a higher score.
\* Otherwise the results are the first top_k survivors in search order with
\* their similarity as score.
C26_RerankStage ==
    (Answered("retrieve") /\ Aligned) =>
        LET rs == last_call.results
            k == last_call.top_k
        IN  /\ last_call.reranked = (last_call.rerank /\ Len(Survivors) > k)
            /\ \A i \in 1..Len(rs) :
                \E j \in 1..Len(Survivors) : r_chunks[Survivors[j].idx + 1].id = rs[i].id
            /\ last_call.reranked =>
                /\ Len(rs) = k
                /\ \A i \in 1..Len(rs) :
                    /\ REq(rs[i].score, Boosted(Survivors[SurvivorOf(rs[i].id)]))
                    /\ RGe(rs[i].score, SimilarityOf(rs[i].id))
                /\ \A i, j \in 1..Len(rs) : i < j =>
                    /\ RGe(rs[i].score, rs[j].score)
                    /\ REq(rs[i].score, rs[j].score)
                            => SurvivorOf(rs[i].id) < SurvivorOf(rs[j].id)
                /\ \A j \in 1..Len(Survivors) :
                    (r_chunks[Survivors[j].idx + 1].id \notin IdSet(rs))
                        => RGe(rs[Len(rs)].score, Boosted(Survivors[j]))
            /\ ~last_call.reranked =>
                /\ Len(rs) = Min(k, Len(Survivors))
                /\ \A i \in 1..Len(rs) :
                    /\ rs[i].id = r_chunks[Survivors[i].idx + 1].id
                    /\ REq(rs[i].score, <<1, 1 + Survivors[i].dist>>)

\* the rerank stage ran and put a chunk before one of higher similarity
C26_Witness ==
    /\ Answered("retrieve") /\ Aligned /\ last_call.reranked
    /\ \E i, j \in 1..Len(last_call.results) :
        /\ i < j
        /\ RGt(SimilarityOf(last_call.results[j].id), SimilarityOf(last_call.results[i].id))

-----------------------------------------------------------------------------
\* the completions the LLM gave to run hold no final answer
NoFinalAnswerGiven ==
    \A k \in 1..Len(a_sent) : ~Truthy(FinalAnswerOf(llm_responses[k]))

\* the steps of run whose tool call raised in _execute_tool
RaisedSteps(steps) ==
    {i \in 1..Len(steps) :
        /\ steps[i].tool_call # NoToolCall
        /\ ~Truthy(steps[i].final_answer)
        /\ ExecuteTool(steps[i].tool_call).raised}

C28_Result ==
    a_pc = "returned" =>
        /\ a_result.iterations <= max_iterations
        /\ Len(a_result.steps) = a_result.iterations
        /\ a_result.tool_calls_count <= a_result.iterations
        /\ \A i \in RaisedSteps(a_result.steps) :
            /\ a_result.steps[i].error = ExecuteTool(a_result.steps[i].tool_call).value
            /\ a_result.steps[i].tool_result = None
        /\ NoFinalAnswerGiven =>
            /\ a_result.final_answer = UnableToComplete
            /\ a_result.iterations = max_iterations

C29_SameBehaviour ==
    (a_pc = "returned" /\ s_pc = "ended") =>
        /\ a_steps = s_yielded
        /\ a_sent = s_sent
        /\ a_executed = s_executed
        /\ \A i \in 1..Len(s_yielded) :
            Truthy(s_yielded[i].final_answer) =>
                s_yielded[i].tool_result = None /\ s_yielded[i].error = None

\* the token count a bucket has after a refill at the clock's time
Refilled(b) ==
    LET t == RAdd(b.tokens, RMul(<<clock - b.last_refill, 1>>, b.refill_rate))
    IN  IF RGe(t, <<b.capacity, 1>>) THEN <<b.capacity, 1>> ELSE t

AllBuckets == {buckets[c] : c \in DOMAIN buckets} \cup {bucket}

C30_TokensInRange ==
    \A b \in AllBuckets : RGe(b.tokens, <<0, 1>>) /\ RGe(<<b.capacity, 1>>, b.tokens)

C30_ConsumeStep ==
    \A n \in 1..MaxConsume :
        ConsumeCall(n) =>
            LET t == Refilled(bucket)
            IN  /\ consume_ret'.returned = RGe(t, <<n, 1>>)
                /\ REq(bucket'.tokens, IF RGe(t, <<n, 1>>) THEN RSub(t, <<n, 1>>) ELSE t)

C30_DispatchStep ==
    \A request \in Requests :
        Dispatch(request) =>
            LET c == ClientId(request)
                t == Refilled(BucketFor(c))
            IN  /\ mw_response'.forwarded = RGe(t, ROne)
                /\ ~RGe(t, ROne) => mw_response'.status = 429
                /\ REq(buckets'[c].tokens, IF RGe(t, ROne) THEN RSub(t, ROne) ELSE t)
                /\ DOMAIN buckets' = DOMAIN buckets \cup {c}
                /\ \A d \in DOMAIN buckets \ {c} : buckets'[d] = buckets[d]

\* C30: with a clock that never goes back, every bucket has 0 <= tokens <=
\* capacity; consume(n) returns True exactly when the refilled bucket holds
\* n tokens, and then takes exactly n, otherwise none; dispatch forwards a
\* request exactly when its client's bucket granted a token and answers 429
\* otherwise, and leaves the buckets of the other clients as they were
C30_TokenBucket ==
    /\ []C30_TokensInRange
    /\ [][C30_ConsumeStep /\ C30_DispatchStep]_vars

\* a client is answered 429 while another client still holds a token
C30_Witness ==
    /\ mw_response.status = 429
    /\ RGt(ROne, buckets[mw_response.client_id].tokens)
    /\ RGt(buckets[mw_response.client_id].tokens, <<0, 1>>)
    /\ \E d \in DOMAIN buckets : d # mw_response.client_id /\ RGe(buckets[d].tokens, ROne)

====
